---------------------------- MODULE Spec2Model ----------------------------
(***************************************************************************)
(* A model of plow, a Debian package repository manager: the version       *)
(* comparator and parser (internal/deb), the control-stanza parser and     *)
(* renderer, the pool path resolver, and the repository operations         *)
(* (AddPackage, Prune, GeneratePackagesIndex, GenerateRelease).            *)
(*                                                                         *)
(* A Go string is modelled as a sequence of one-character strings, so that *)
(* the byte-wise algorithms of the source (prefixes, runs of digits, the   *)
(* regular expression of ParseVersion) are computed as the code computes   *)
(* them.  A Go int64 obtained from strconv is modelled as the canonical    *)
(* decimal digit sequence of its value, saturated at 2^63-1 as             *)
(* strconv.ParseInt saturates it.                                          *)
(***************************************************************************)
EXTENDS Integers, Sequences, FiniteSets, TLC

(***************************************************************************)
(* Let(v, F) is F(v) and Let2(v, w, F) is F(v, w): a local variable of the *)
(* source, assigned once and read where F reads its argument.              *)
(***************************************************************************)
Let(v, F(_)) == F(v)
Let2(v, w, F(_, _)) == F(v, w)

(***************************************************************************)
(* Characters.                                                             *)
(***************************************************************************)

\* The byte value of each character the model uses.
Ord ==
  ("0" :> 48) @@ ("1" :> 49) @@ ("2" :> 50) @@ ("3" :> 51) @@ ("4" :> 52) @@
  ("5" :> 53) @@ ("6" :> 54) @@ ("7" :> 55) @@ ("8" :> 56) @@ ("9" :> 57) @@
  ("a" :> 97) @@ ("b" :> 98) @@ ("c" :> 99) @@ ("d" :> 100) @@ ("e" :> 101) @@
  ("f" :> 102) @@ ("g" :> 103) @@ ("i" :> 105) @@ ("k" :> 107) @@
  ("l" :> 108) @@ ("m" :> 109) @@ ("n" :> 110) @@ ("o" :> 111) @@
  ("p" :> 112) @@
  ("r" :> 114) @@ ("t" :> 116) @@ ("u" :> 117) @@ ("x" :> 120) @@
  ("s" :> 115) @@ ("y" :> 121) @@ ("z" :> 122) @@
  ("I" :> 73) @@ ("P" :> 80) @@ ("R" :> 82) @@ ("Z" :> 90) @@
  ("~" :> 126) @@ ("." :> 46) @@ ("-" :> 45) @@ (":" :> 58) @@
  ("_" :> 95) @@ ("+" :> 43) @@ ("/" :> 47) @@ (" " :> 32) @@ ("\t" :> 9)

\* unicode.IsDigit on a byte: only the ASCII digits.
IsDigit(c) == c \in {"0", "1", "2", "3", "4", "5", "6", "7", "8", "9"}

\* strings.HasPrefix and strings.HasSuffix.
HasPrefix(s, p) == Len(s) >= Len(p) /\ SubSeq(s, 1, Len(p)) = p
HasSuffix(s, p) == Len(s) >= Len(p) /\ SubSeq(s, Len(s) - Len(p) + 1, Len(s)) = p

(***************************************************************************)
(* strconv.ParseInt(s, 10, 64) and strconv.Atoi on a string of digits.     *)
(***************************************************************************)

\* 2^63-1, the value strconv returns (with an error the callers drop) for
\* every digit string that denotes a larger number.
MaxInt64 ==
  <<"9","2","2","3","3","7","2","0","3","6","8","5","4","7","7","5","8","0","7">>

\* 2^63, one more than the largest int64.
TwoPow63 ==
  <<"9","2","2","3","3","7","2","0","3","6","8","5","4","7","7","5","8","0","8">>

\* strings.TrimLeft(s, "0")
RECURSIVE TrimLeftZeros(_)
TrimLeftZeros(s) ==
  IF Len(s) > 0 /\ Head(s) = "0" THEN TrimLeftZeros(Tail(s)) ELSE s

\* The order of two canonical digit sequences (no leading zero) as numbers.
RECURSIVE LexLess(_, _)
LexLess(x, y) ==
  IF Len(x) = 0 \/ Len(y) = 0 THEN FALSE
  ELSE IF Ord[Head(x)] # Ord[Head(y)] THEN Ord[Head(x)] < Ord[Head(y)]
  ELSE LexLess(Tail(x), Tail(y))

NumLess(x, y) == Len(x) < Len(y) \/ (Len(x) = Len(y) /\ LexLess(x, y))

\* The int64 a digit string parses to, as a canonical digit sequence.
ParseInt(s) ==
  LET t == TrimLeftZeros(s)
      n == IF t = <<>> THEN <<"0">> ELSE t
  IN  IF NumLess(MaxInt64, n) THEN MaxInt64 ELSE n

(***************************************************************************)
(* ParseVersion: versionRegex = ^(?:(\d+):)?([^-]+)(?:-(.+))?$             *)
(***************************************************************************)

\* The length of the longest prefix of s made of digits.
RECURSIVE DigitPrefixLen(_)
DigitPrefixLen(s) ==
  IF Len(s) > 0 /\ IsDigit(Head(s)) THEN 1 + DigitPrefixLen(Tail(s)) ELSE 0

\* The position of the first "-" of s, 0 when there is none.
RECURSIVE FirstHyphen(_)
FirstHyphen(s) ==
  IF Len(s) = 0 THEN 0
  ELSE IF Head(s) = "-" THEN 1
  ELSE LET k == FirstHyphen(Tail(s)) IN IF k = 0 THEN 0 ELSE k + 1

\* Whether r matches ([^-]+)(?:-(.+))?$ : a non-empty run without a hyphen,
\* then nothing, or a hyphen and at least one more character.
MatchesBody(r) ==
  /\ Len(r) > 0
  /\ Head(r) # "-"
  /\ FirstHyphen(r) # Len(r)

\* The groups 2 and 3 of a match of the body.
BodyGroups(r) ==
  LET h == FirstHyphen(r)
  IN  IF h = 0 THEN [upstream |-> r, revision |-> <<>>]
      ELSE [upstream |-> SubSeq(r, 1, h - 1),
            revision |-> SubSeq(r, h + 1, Len(r))]

\* The regular expression prefers the branch with the epoch group; when the
\* rest cannot match after it, it matches the whole string without an epoch.
versionRegex(v) ==
  LET d == DigitPrefixLen(v)
      withEpoch == d > 0 /\ Len(v) > d /\ v[d + 1] = ":"
      rest == SubSeq(v, d + 2, Len(v))
  IN  IF withEpoch /\ MatchesBody(rest)
        THEN [matched |-> TRUE, epoch |-> SubSeq(v, 1, d)] @@ BodyGroups(rest)
      ELSE IF MatchesBody(v)
        THEN [matched |-> TRUE, epoch |-> <<>>] @@ BodyGroups(v)
      ELSE [matched |-> FALSE, epoch |-> <<>>, upstream |-> <<>>,
            revision |-> <<>>]

ParseVersion(version) ==
  Let(versionRegex(version), LAMBDA m :
    IF ~m.matched
      THEN [epoch |-> <<"0">>, upstream |-> version, revision |-> <<>>]
    ELSE [epoch |-> IF m.epoch # <<>> THEN ParseInt(m.epoch) ELSE <<"0">>,
          upstream |-> m.upstream, revision |-> m.revision])

(***************************************************************************)
(* Compare and its helpers.                                                *)
(***************************************************************************)

RECURSIVE NonDigitPrefixLen(_)
NonDigitPrefixLen(s) ==
  IF Len(s) > 0 /\ ~IsDigit(Head(s)) THEN 1 + NonDigitPrefixLen(Tail(s)) ELSE 0

extractNonDigits(s) ==
  LET i == NonDigitPrefixLen(s)
  IN  [run |-> SubSeq(s, 1, i), rest |-> SubSeq(s, i + 1, Len(s))]

extractDigits(s) ==
  LET i == DigitPrefixLen(s)
  IN  [run |-> SubSeq(s, 1, i), rest |-> SubSeq(s, i + 1, Len(s))]

\* charOrder without the case of the tilde.
charOrder_TildeOrdinary(c) ==
  IF Ord[c] >= 65 /\ Ord[c] <= 90 THEN Ord[c]
  ELSE IF Ord[c] >= 97 /\ Ord[c] <= 122 THEN Ord[c]
  ELSE Ord[c] + 256

charOrder(c) ==
  IF c = "~" THEN -1
  ELSE IF Ord[c] >= 65 /\ Ord[c] <= 90 THEN Ord[c]
  ELSE IF Ord[c] >= 97 /\ Ord[c] <= 122 THEN Ord[c]
  ELSE Ord[c] + 256

\* The loop of compareNonDigits from index i (1-based) on.
RECURSIVE compareNonDigitsFrom(_, _, _)
compareNonDigitsFrom(a, b, i) ==
  IF ~(i <= Len(a) \/ i <= Len(b)) THEN 0
  ELSE LET ca == IF i <= Len(a) THEN charOrder(a[i]) ELSE 0
           cb == IF i <= Len(b) THEN charOrder(b[i]) ELSE 0
       IN  IF ca # cb THEN (IF ca < cb THEN -1 ELSE 1)
           ELSE compareNonDigitsFrom(a, b, i + 1)

compareNonDigits(a, b) == compareNonDigitsFrom(a, b, 1)

\* compareDigits without the final `return 0`.
compareDigits_NoEqual(a, b) ==
  IF NumLess(ParseInt(a), ParseInt(b)) THEN -1 ELSE 1

\* A compareDigits that ranks an empty digit string below every other.
compareDigits_EmptyIsLess(a, b) ==
  IF a = <<>> /\ b # <<>> THEN -1
  ELSE IF b = <<>> /\ a # <<>> THEN 1
  ELSE IF NumLess(ParseInt(a), ParseInt(b)) THEN -1
  ELSE IF NumLess(ParseInt(b), ParseInt(a)) THEN 1
  ELSE 0

compareDigits(a, b) ==
  Let2(ParseInt(a), ParseInt(b), LAMBDA numA, numB :
    IF NumLess(numA, numB) THEN -1
    ELSE IF NumLess(numB, numA) THEN 1
    ELSE 0)

RECURSIVE compareVersionPart(_, _)
compareVersionPart(a, b) ==
  IF ~(Len(a) > 0 \/ Len(b) > 0) THEN 0
  ELSE Let2(extractNonDigits(a), extractNonDigits(b), LAMBDA na, nb :
         Let(compareNonDigits(na.run, nb.run), LAMBDA c1 :
           IF c1 # 0 THEN c1
           ELSE Let2(extractDigits(na.rest), extractDigits(nb.rest),
                     LAMBDA da, db :
                  Let(compareDigits(da.run, db.run), LAMBDA c2 :
                    IF c2 # 0 THEN c2
                    ELSE compareVersionPart(da.rest, db.rest)))))

Compare(a, b) ==
  Let2(ParseVersion(a), ParseVersion(b), LAMBDA pa, pb :
    IF pa.epoch # pb.epoch
      THEN (IF NumLess(pa.epoch, pb.epoch) THEN -1 ELSE 1)
    ELSE Let(compareVersionPart(pa.upstream, pb.upstream), LAMBDA cmp :
           IF cmp # 0 THEN cmp
           ELSE compareVersionPart(pa.revision, pb.revision)))

(***************************************************************************)
(* The control stanza: Package, parseControl and ControlString.            *)
(* A text is a sequence of characters in which "\n" ends a line, and a     *)
(* field name (Package, Pre-Depends, ...) is one symbol of the alphabet.   *)
(***************************************************************************)

\* type Package: the zero value.
EmptyPackage ==
  [Name |-> <<>>, Version |-> <<>>, Architecture |-> <<>>,
   Maintainer |-> <<>>, Description |-> <<>>, Depends |-> <<>>,
   PreDepends |-> <<>>, Recommends |-> <<>>, Suggests |-> <<>>,
   Conflicts |-> <<>>, Provides |-> <<>>, Replaces |-> <<>>,
   Section |-> <<>>, Priority |-> <<>>, Homepage |-> <<>>,
   Size |-> 0, InstalledSize |-> 0, Filename |-> <<>>,
   MD5sum |-> <<>>, SHA1 |-> <<>>, SHA256 |-> <<>>]

\* unicode.IsSpace on the characters of the model.
IsSpace(c) == c \in {" ", "\t", "\n", "\r"}

RECURSIVE TrimLeftSpace(_)
TrimLeftSpace(s) ==
  IF Len(s) > 0 /\ IsSpace(Head(s)) THEN TrimLeftSpace(Tail(s)) ELSE s

RECURSIVE TrimRightSpace(_)
TrimRightSpace(s) ==
  IF Len(s) > 0 /\ IsSpace(s[Len(s)])
    THEN TrimRightSpace(SubSeq(s, 1, Len(s) - 1))
  ELSE s

\* strings.TrimSpace
TrimSpace(s) == TrimRightSpace(TrimLeftSpace(s))

\* strings.Index(s, c) + 1: the position of the first c, 0 when absent.
RECURSIVE IndexOf(_, _)
IndexOf(s, c) ==
  IF Len(s) = 0 THEN 0
  ELSE IF Head(s) = c THEN 1
  ELSE LET k == IndexOf(Tail(s), c) IN IF k = 0 THEN 0 ELSE k + 1

\* bufio.ScanLines: a line loses one trailing "\r".
DropCR(line) ==
  IF Len(line) > 0 /\ line[Len(line)] = "\r"
    THEN SubSeq(line, 1, Len(line) - 1)
  ELSE line

\* The lines bufio.Scanner yields for a text: each ends at a "\n"; a last
\* line without "\n" is yielded when it is not empty.
RECURSIVE ScanLines(_)
ScanLines(data) ==
  LET k == IndexOf(data, "\n")
  IN  IF k = 0 THEN (IF Len(data) = 0 THEN <<>> ELSE <<DropCR(data)>>)
      ELSE <<DropCR(SubSeq(data, 1, k - 1))>>
             \o ScanLines(SubSeq(data, k + 1, Len(data)))

\* The value of a canonical digit sequence as a number.
RECURSIVE DigitsToInt(_)
DigitsToInt(d) ==
  IF Len(d) = 0 THEN 0
  ELSE 10 * DigitsToInt(SubSeq(d, 1, Len(d) - 1)) + (Ord[d[Len(d)]] - 48)

\* strconv.FormatInt(n, 10)
RECURSIVE FormatNat(_)
FormatNat(n) ==
  LET digit == <<"0", "1", "2", "3", "4", "5", "6", "7", "8", "9">>
  IN  IF n < 10 THEN <<digit[n + 1]>>
      ELSE Append(FormatNat(n \div 10), digit[(n % 10) + 1])

FormatInt(n) == IF n < 0 THEN <<"-">> \o FormatNat(0 - n) ELSE FormatNat(n)

\* strconv.ParseInt(value, 10, 64) on any string: whether it returns an
\* error (no digits, a character that is no digit, a value out of range).
ParseIntSigned(value) ==
  LET signed == Len(value) > 0 /\ value[1] \in {"+", "-"}
      body == IF signed THEN Tail(value) ELSE value
      t == TrimLeftZeros(body)
      n == IF t = <<>> THEN <<"0">> ELSE t
      syntaxOk == Len(body) > 0 /\ \A i \in 1..Len(body) : IsDigit(body[i])
      neg == signed /\ value[1] = "-"
      inRange == ~NumLess(MaxInt64, n) \/ (neg /\ n = TwoPow63)
  IN  IF syntaxOk /\ inRange
        THEN [err |-> FALSE, n |-> IF neg THEN 0 - DigitsToInt(n) ELSE DigitsToInt(n)]
      ELSE [err |-> TRUE, n |-> 0]

\* The struct field each case of saveField's switch assigns.
FieldOf ==
  (<<"Package">> :> "Name") @@ (<<"Version">> :> "Version") @@
  (<<"Architecture">> :> "Architecture") @@
  (<<"Maintainer">> :> "Maintainer") @@
  (<<"Description">> :> "Description") @@ (<<"Depends">> :> "Depends") @@
  (<<"Pre-Depends">> :> "PreDepends") @@
  (<<"Recommends">> :> "Recommends") @@ (<<"Suggests">> :> "Suggests") @@
  (<<"Conflicts">> :> "Conflicts") @@ (<<"Provides">> :> "Provides") @@
  (<<"Replaces">> :> "Replaces") @@ (<<"Section">> :> "Section") @@
  (<<"Priority">> :> "Priority") @@ (<<"Homepage">> :> "Homepage")

\* The closure saveField of parseControl, on the scan state
\* [pkg, currentField, currentValue].
saveField(st) ==
  IF st.currentField = <<>> THEN st
  ELSE Let(TrimSpace(st.currentValue), LAMBDA value :
         IF st.currentField \in DOMAIN FieldOf
           THEN [st EXCEPT !.pkg[FieldOf[st.currentField]] = value]
         ELSE IF st.currentField = <<"Installed-Size">>
           THEN Let(ParseIntSigned(value), LAMBDA r :
                  IF r.err THEN st
                  ELSE [st EXCEPT !.pkg.InstalledSize = r.n])
         ELSE st)

\* A scan loop that trims each continuation line before it appends it.
scanLine_TrimmingContinuation(st, line) ==
  IF Len(line) > 0 /\ (line[1] = " " \/ line[1] = "\t")
    THEN [st EXCEPT !.currentValue =
                      st.currentValue \o <<"\n">> \o TrimSpace(line)]
  ELSE Let2(saveField(st), IndexOf(line, ":"), LAMBDA saved, idx :
         IF idx > 1
           THEN [saved EXCEPT
                   !.currentField = SubSeq(line, 1, idx - 1),
                   !.currentValue =
                     IF idx < Len(line)
                       THEN TrimSpace(SubSeq(line, idx + 1, Len(line)))
                     ELSE <<>>]
         ELSE saved)

\* One iteration of the scan loop of parseControl.
scanLine(st, line) ==
  IF Len(line) > 0 /\ (line[1] = " " \/ line[1] = "\t")
    THEN [st EXCEPT !.currentValue = st.currentValue \o <<"\n">> \o line]
  ELSE Let2(saveField(st), IndexOf(line, ":"), LAMBDA saved, idx :
         IF idx > 1
           THEN [saved EXCEPT
                   !.currentField = SubSeq(line, 1, idx - 1),
                   !.currentValue =
                     IF idx < Len(line)
                       THEN TrimSpace(SubSeq(line, idx + 1, Len(line)))
                     ELSE <<>>]
         ELSE saved)

RECURSIVE scanLines(_, _)
scanLines(st, lines) ==
  IF Len(lines) = 0 THEN st
  ELSE scanLines(scanLine(st, Head(lines)), Tail(lines))

\* parseControl without its check of the Architecture field.
parseControl_NoArchitectureCheck(data) ==
  LET start == [pkg |-> EmptyPackage, currentField |-> <<>>,
                currentValue |-> <<>>]
  IN  Let(saveField(scanLines(start, ScanLines(data))).pkg, LAMBDA p :
        IF p.Name = <<>> THEN [err |-> "missing Package field"]
        ELSE IF p.Version = <<>> THEN [err |-> "missing Version field"]
        ELSE [err |-> "", pkg |-> p])

\* parseControl: the record, or the error of the first missing field.
parseControl(data) ==
  LET start == [pkg |-> EmptyPackage, currentField |-> <<>>,
                currentValue |-> <<>>]
  IN  Let(saveField(scanLines(start, ScanLines(data))).pkg, LAMBDA p :
        IF p.Name = <<>> THEN [err |-> "missing Package field"]
        ELSE IF p.Version = <<>> THEN [err |-> "missing Version field"]
        ELSE IF p.Architecture = <<>>
          THEN [err |-> "missing Architecture field"]
        ELSE [err |-> "", pkg |-> p])

\* The closure writeField of ControlString.
writeField(name, value) ==
  IF value # <<>> THEN <<name, ":", " ">> \o value \o <<"\n">> ELSE <<>>

ControlString(p) ==
  writeField("Package", p.Name)
  \o writeField("Version", p.Version)
  \o writeField("Architecture", p.Architecture)
  \o writeField("Maintainer", p.Maintainer)
  \o (IF p.InstalledSize > 0
        THEN writeField("Installed-Size", FormatInt(p.InstalledSize))
      ELSE <<>>)
  \o writeField("Pre-Depends", p.PreDepends)
  \o writeField("Depends", p.Depends)
  \o writeField("Recommends", p.Recommends)
  \o writeField("Suggests", p.Suggests)
  \o writeField("Conflicts", p.Conflicts)
  \o writeField("Provides", p.Provides)
  \o writeField("Replaces", p.Replaces)
  \o writeField("Section", p.Section)
  \o writeField("Priority", p.Priority)
  \o writeField("Homepage", p.Homepage)
  \o writeField("Filename", p.Filename)
  \o writeField("Size", FormatInt(p.Size))
  \o writeField("MD5sum", p.MD5sum)
  \o writeField("SHA1", p.SHA1)
  \o writeField("SHA256", p.SHA256)
  \o writeField("Description", p.Description)

(***************************************************************************)
(* Paths.  A path is a string relative to the repository root; its         *)
(* elements are separated by "/".                                          *)
(***************************************************************************)

\* strings.Split(p, "/")
RECURSIVE SplitPath(_)
SplitPath(p) ==
  LET k == IndexOf(p, "/")
  IN  IF k = 0 THEN <<p>>
      ELSE <<SubSeq(p, 1, k - 1)>> \o SplitPath(SubSeq(p, k + 1, Len(p)))

\* strings.Join(elems, "/")
RECURSIVE JoinPath(_)
JoinPath(elems) ==
  IF Len(elems) = 0 THEN <<>>
  ELSE IF Len(elems) = 1 THEN elems[1]
  ELSE elems[1] \o <<"/">> \o JoinPath(Tail(elems))

\* The element rewriting of filepath.Clean on a relative path: empty and "."
\* elements are dropped, ".." removes the element before it.
RECURSIVE CleanElements(_, _)
CleanElements(out, elems) ==
  IF Len(elems) = 0 THEN out
  ELSE LET e == Head(elems)
       IN  IF e = <<>> \/ e = <<".">>
             THEN CleanElements(out, Tail(elems))
           ELSE IF e = <<".", ".">> /\ Len(out) > 0
                   /\ out[Len(out)] # <<".", ".">>
             THEN CleanElements(SubSeq(out, 1, Len(out) - 1), Tail(elems))
           ELSE CleanElements(Append(out, e), Tail(elems))

\* filepath.Clean on a relative path.
Clean(p) ==
  LET elems == CleanElements(<<>>, SplitPath(p))
  IN  IF Len(elems) = 0 THEN <<".">> ELSE JoinPath(elems)

\* filepath.Join: empty elements are ignored, the result is cleaned.
Join(elems) ==
  LET given == SelectSeq(elems, LAMBDA e : e # <<>>)
  IN  IF Len(given) = 0 THEN <<>> ELSE Clean(JoinPath(given))

\* filepath.Base on a relative path.
Base(p) ==
  LET elems == SelectSeq(SplitPath(p), LAMBDA e : e # <<>>)
  IN  IF Len(p) = 0 THEN <<".">>
      ELSE IF Len(elems) = 0 THEN <<"/">>
      ELSE elems[Len(elems)]

\* filepath.Dir on a relative path.
Dir(p) ==
  LET elems == SplitPath(p)
  IN  Clean(JoinPath(SubSeq(elems, 1, Len(elems) - 1)))

PoolName == <<"p", "o", "o", "l">>
MainName == <<"m", "a", "i", "n">>
DebSuffix == <<".", "d", "e", "b">>

\* A PoolPath whose lib rule starts one character later.
PoolPath_LongerThanFour(p, filename) ==
  LET prefix == IF HasPrefix(p.Name, <<"l", "i", "b">>) /\ Len(p.Name) > 4
                  THEN SubSeq(p.Name, 1, 4)
                ELSE SubSeq(p.Name, 1, 1)
  IN  Join(<<PoolName, MainName, prefix, p.Name, filename>>)

\* Package.PoolPath
PoolPath(p, filename) ==
  LET prefix == IF HasPrefix(p.Name, <<"l", "i", "b">>) /\ Len(p.Name) > 3
                  THEN SubSeq(p.Name, 1, 4)
                ELSE SubSeq(p.Name, 1, 1)
  IN  Join(<<PoolName, MainName, prefix, p.Name, filename>>)

\* Package.DebFilename
DebFilename(p) ==
  p.Name \o <<"_">> \o p.Version \o <<"_">> \o p.Architecture \o DebSuffix

(***************************************************************************)
(* The repository on disk.                                                 *)
(*   A .deb file is [ar, data, members]: whether it reads as an ar         *)
(*   archive, a string standing for its bytes, and the members of the      *)
(*   archive.  A member is [name, enc, tarOk,                              *)
(*   entries]: the name in its header, how its payload is encoded ("gzip", *)
(*   "xz", "zst", "bz2" or "tar" for a plain tar), whether the decoded     *)
(*   payload is a readable tar, and the entries [name, body] of that tar.  *)
(*   A digest of a file is the pair of the algorithm and what is digested. *)
(*   The pool is a map from paths to .deb files and a set of directories;  *)
(*   the tree of a distribution is a map from paths below dists/<dist>     *)
(*   to contents.                                                          *)
(***************************************************************************)

EmptyMap == [x \in {} |-> x]

\* The byte order of two strings.
RECURSIVE StrLess(_, _)
StrLess(a, b) ==
  IF Len(b) = 0 THEN FALSE
  ELSE IF Len(a) = 0 THEN TRUE
  ELSE IF Head(a) # Head(b) THEN Ord[Head(a)] < Ord[Head(b)]
  ELSE StrLess(Tail(a), Tail(b))

\* The order in which filepath.Walk reaches two paths.  Walk sorts the names
\* of each directory and goes through a directory before the name after it,
\* so the paths are ordered element by element: where they first differ, the
\* path whose element ends there comes first, and otherwise the bytes decide.
RECURSIVE walkLessFrom(_, _, _)
walkLessFrom(p, q, i) ==
  IF i > Len(q) THEN FALSE
  ELSE IF i > Len(p) THEN TRUE
  ELSE IF p[i] = q[i] THEN walkLessFrom(p, q, i + 1)
  ELSE IF p[i] = "/" THEN TRUE
  ELSE IF q[i] = "/" THEN FALSE
  ELSE Ord[p[i]] < Ord[q[i]]

WalkLess(p, q) == walkLessFrom(p, q, 1)

\* The paths of a set in the order filepath.Walk reaches them.
RECURSIVE WalkOrder(_)
WalkOrder(S) ==
  IF S = {} THEN <<>>
  ELSE LET p == CHOOSE x \in S : TRUE
           rest == WalkOrder(S \ {p})
           k == Cardinality({ i \in 1..Len(rest) : WalkLess(rest[i], p) })
       IN  SubSeq(rest, 1, k) \o <<p>> \o SubSeq(rest, k + 1, Len(rest))

\* Whether path p lies below directory d.
Below(p, d) == HasPrefix(p, d \o <<"/">>)

\* The directories os.MkdirAll(d) makes sure of: d and every ancestor.
MkdirAll(d) ==
  LET elems == SplitPath(d)
  IN  { JoinPath(SubSeq(elems, 1, k)) : k \in 1..Len(elems) }

\* stat.Size() and the digests of a .deb file.
DebSize(file) == Len(file.data) + Len(file.members)
DebDigest(alg, file) == <<alg>> \o file.data

ControlTar == <<"c", "o", "n", "t", "r", "o", "l", ".", "t", "a", "r">>
ControlName == <<"c", "o", "n", "t", "r", "o", "l">>

\* strings.TrimSuffix and strings.TrimPrefix
TrimSuffix(s, suffix) ==
  IF HasSuffix(s, suffix) THEN SubSeq(s, 1, Len(s) - Len(suffix)) ELSE s
TrimPrefix(s, prefix) ==
  IF HasPrefix(s, prefix) THEN SubSeq(s, Len(prefix) + 1, Len(s)) ELSE s

\* findControlInTar on the entries of a tar from entry i on: the body of the
\* first entry named control or ./control.
RECURSIVE findControlFrom(_, _)
findControlFrom(entries, i) ==
  IF i > Len(entries)
    THEN [err |-> "control file not found in tar", data |-> <<>>]
  ELSE IF TrimPrefix(entries[i].name, <<".", "/">>) = ControlName
    THEN [err |-> "", data |-> entries[i].body]
  ELSE findControlFrom(entries, i + 1)

\* findControlInTar on a stream that is a readable tar or is not.
findControlInTar(tarOk, entries) ==
  IF ~tarOk THEN [err |-> "read tar", data |-> <<>>]
  ELSE findControlFrom(entries, 1)

\* extractControlWithCmd: what extractControlFromXz and
\* extractControlFromZstd end in.
extractControlWithCmd ==
  [err |-> "xz/zstd decompression not implemented - use gzip", data |-> <<>>]

\* extractControl on an ar member: the switch on the suffix of its name.
\* A gzip reader fails on a payload that is not gzip; the default case reads
\* the payload as a tar, which it is only when it is not compressed.
extractControl(member, archiveName) ==
  IF HasSuffix(archiveName, <<".", "g", "z">>)
    THEN IF member.enc # "gzip" THEN [err |-> "open gzip", data |-> <<>>]
         ELSE findControlInTar(member.tarOk, member.entries)
  ELSE IF HasSuffix(archiveName, <<".", "x", "z">>) THEN extractControlWithCmd
  ELSE IF HasSuffix(archiveName, <<".", "z", "s", "t">>)
    THEN extractControlWithCmd
  ELSE findControlInTar(member.enc = "tar" /\ member.tarOk, member.entries)

\* The loop of Parse over the ar members from member i on: the first member
\* whose name starts with control.tar is extracted and ends the loop.
RECURSIVE readMembers(_, _)
readMembers(members, i) ==
  IF i > Len(members) THEN [found |-> FALSE, err |-> "", data |-> <<>>]
  ELSE Let(TrimSuffix(members[i].name, <<"/">>), LAMBDA name :
         IF HasPrefix(name, ControlTar)
           THEN [found |-> TRUE] @@ extractControl(members[i], name)
         ELSE readMembers(members, i + 1))

\* deb.Parse on the contents of a file: the record of its control file with
\* size and digests of the file, or an error and its cause.
Parse(file) ==
  Let(readMembers(file.members, 1), LAMBDA c :
    IF ~file.ar THEN [err |-> "read ar", cause |-> ""]
    ELSE IF c.err # "" THEN [err |-> "extract control", cause |-> c.err]
    ELSE IF ~c.found
      THEN [err |-> "control file not found in deb", cause |-> ""]
    ELSE Let(parseControl(c.data), LAMBDA r :
           IF r.err # "" THEN [err |-> "parse control", cause |-> r.err]
           ELSE [err |-> "", cause |-> "",
                 pkg |-> [r.pkg EXCEPT !.Size = DebSize(file),
                                       !.MD5sum = DebDigest("m", file),
                                       !.SHA1 = DebDigest("s", file),
                                       !.SHA256 = DebDigest("S", file)]]))

Amd64 == <<"a", "m", "d", "6", "4">>
AllArch == <<"a", "l", "l">>

\* The members debian-binary and data.tar.gz of a .deb file.
DebianBinary ==
  [name |-> <<"d", "e", "b", "i", "a", "n", "-", "b", "i", "n", "a", "r", "y">>,
   enc |-> "tar", tarOk |-> FALSE, entries |-> <<>>]
DataTar ==
  [name |-> <<"d", "a", "t", "a", ".", "t", "a", "r", ".", "g", "z">>,
   enc |-> "gzip", tarOk |-> TRUE, entries |-> <<>>]

\* A control member of the given name and encoding whose tar holds
\* ./control with the given text.
ControlMember(name, enc, text) ==
  [name |-> name, enc |-> enc, tarOk |-> TRUE,
   entries |-> << [name |-> <<".", "/">> \o ControlName, body |-> text] >>]

\* A control text that is a complete stanza.
CompleteText ==
  <<"Package", ":", " ", "a", "\n", "Version", ":", " ", "1", "\n",
    "Architecture", ":", " ">> \o Amd64 \o <<"\n">>

\* A .deb file of a package as dpkg-deb builds it, its bytes named by data.
DebFile(name, version, arch, data) ==
  [ar |-> TRUE, data |-> data,
   members |->
     << DebianBinary,
        ControlMember(ControlTar \o <<".", "g", "z">>, "gzip",
                      ControlString([EmptyPackage EXCEPT
                                       !.Name = name, !.Version = version,
                                       !.Architecture = arch])),
        DataTar >>]

\* A source file named as DebFilename names it.
Named(name, version, arch) ==
  [path |-> name \o <<"_">> \o version \o <<"_">> \o arch \o DebSuffix,
   file |-> DebFile(name, version, arch, name \o version \o arch)]

\* A file named build.deb that holds version 1 of package a for amd64.
BuildDeb ==
  [path |-> <<"b", "u", "i", "l", "d">> \o DebSuffix,
   file |-> DebFile(<<"a">>, <<"1">>, Amd64, <<"b", "1">>)]

\* The files handed to AddPackage before Prune: five versions of package a
\* for amd64, build.deb, and two packages whose name or architecture holds
\* an underscore.
Sources ==
  { Named(t[1], t[2], t[3]) :
      t \in { << <<"a">>, <<"1">>, Amd64 >>, << <<"a">>, <<"2">>, Amd64 >>,
              << <<"a">>, <<"1", "0">>, Amd64 >>,
              << <<"a">>, <<"1", "~">>, Amd64 >>,
              << <<"a">>, <<"1", ".", "0">>, Amd64 >>,
              << <<"a", "_", "b">>, <<"1">>, <<"c">> >>,
              << <<"a">>, <<"2">>, <<"b", "_", "c">> >> } }
  \cup {BuildDeb}

\* The files handed to AddPackage before the index is generated: packages
\* for amd64, for every architecture and for an architecture not configured.
IndexSources ==
  { Named(t[1], t[2], t[3]) :
      t \in { << <<"a">>, <<"1">>, Amd64 >>, << <<"a">>, <<"2">>, Amd64 >>,
              << <<"l", "i", "b", "a">>, <<"1">>, AllArch >>,
              << <<"a", "_", "b">>, <<"1">>, <<"c">> >> } }

\* Files ending in .deb that deb.Parse refuses: a file that is no ar
\* archive, as an interrupted copy leaves it, and a package whose control
\* member is compressed with zstd.
BrokenFiles ==
  { [ar |-> FALSE, data |-> <<"x">>, members |-> <<>>],
    [ar |-> TRUE, data |-> <<"z">>,
     members |-> << DebianBinary,
                    ControlMember(ControlTar \o <<".", "z", "s", "t">>, "zst",
                                  CompleteText),
                    DataTar >>] }

\* deb.Parse on the files of the model, each parsed once.
DebFiles == { src.file : src \in Sources \cup IndexSources } \cup BrokenFiles
Parsed == [file \in DebFiles |-> Parse(file)]
ParseFile(file) == Parsed[file]

PoolDir == Join(<<PoolName, MainName>>)

\* An AddPackage that keeps a pool directory for each distribution other than
\* stable.
AddPackage_PerDistribution(fs, ds, debPath, file, dist) ==
  Let2(ParseFile(file), Base(debPath), LAMBDA r, filename :
    IF r.err # "" THEN [err |-> "parse deb", files |-> fs, dirs |-> ds]
    ELSE Let(IF dist = "stable" THEN PoolPath(r.pkg, filename)
             ELSE Join(<<PoolName, <<"t">>, filename>>),
             LAMBDA poolPath :
           [err |-> "",
            pkg |-> [r.pkg EXCEPT !.Filename = poolPath],
            files |-> (poolPath :> file) @@ fs,
            dirs |-> ds \cup MkdirAll(Dir(poolPath))]))

\* Repository.AddPackage(debPath, dist) on pool files fs and directories ds,
\* the file at debPath holding `file`. The
\* dist argument is not used.
AddPackage(fs, ds, debPath, file, dist) ==
  Let2(ParseFile(file), Base(debPath), LAMBDA r, filename :
    IF r.err # "" THEN [err |-> "parse deb", files |-> fs, dirs |-> ds]
    ELSE Let(PoolPath(r.pkg, filename), LAMBDA poolPath :
           [err |-> "",
            pkg |-> [r.pkg EXCEPT !.Filename = poolPath],
            files |-> (poolPath :> file) @@ fs,
            dirs |-> ds \cup MkdirAll(Dir(poolPath))]))

\* Repository.AddPackage when copyFile fails to create the file in the
\* pool: the directories MkdirAll made stay.
AddPackageCopyFails(fs, ds, debPath, file) ==
  Let2(ParseFile(file), Base(debPath), LAMBDA r, filename :
    IF r.err # "" THEN [err |-> "parse deb", files |-> fs, dirs |-> ds]
    ELSE [err |-> "copy deb to pool", files |-> fs,
          dirs |-> ds \cup MkdirAll(Dir(PoolPath(r.pkg, filename)))])

(***************************************************************************)
(* Prune.                                                                  *)
(***************************************************************************)

\* The value Prune gives KeepVersions when the caller passes less than 1.
DefaultKeepVersions == 5

\* A walk of Prune that passes over the files that do not parse.
RECURSIVE pruneWalk_Skipping(_, _, _)
pruneWalk_Skipping(paths, fs, packages) ==
  IF Len(paths) = 0 THEN [err |-> "", path |-> <<>>, packages |-> packages]
  ELSE LET path == Head(paths)
       IN  IF ~HasSuffix(path, DebSuffix)
             THEN pruneWalk_Skipping(Tail(paths), fs, packages)
           ELSE Let(ParseFile(fs[path]), LAMBDA r :
                  IF r.err # ""
                    THEN pruneWalk_Skipping(Tail(paths), fs, packages)
                  ELSE LET key == r.pkg.Name \o <<"_">> \o r.pkg.Architecture
                           sofar == IF key \in DOMAIN packages
                                      THEN packages[key] ELSE <<>>
                           pf == [Path |-> path, Version |-> r.pkg.Version]
                       IN  pruneWalk_Skipping(Tail(paths), fs,
                             (key :> Append(sofar, pf)) @@ packages))

\* The walk of Prune over the pool: the files ending in .deb, in walk
\* order, grouped in the map packages; the first file that does not parse
\* ends the walk with an error that names its path.
RECURSIVE pruneWalk(_, _, _)
pruneWalk(paths, fs, packages) ==
  IF Len(paths) = 0 THEN [err |-> "", path |-> <<>>, packages |-> packages]
  ELSE LET path == Head(paths)
       IN  IF ~HasSuffix(path, DebSuffix)
             THEN pruneWalk(Tail(paths), fs, packages)
           ELSE Let(ParseFile(fs[path]), LAMBDA r :
                  IF r.err # ""
                    THEN [err |-> "parse", path |-> path,
                          packages |-> packages]
                  ELSE LET key == r.pkg.Name \o <<"_">> \o r.pkg.Architecture
                           sofar == IF key \in DOMAIN packages
                                      THEN packages[key] ELSE <<>>
                           pf == [Path |-> path, Version |-> r.pkg.Version]
                       IN  pruneWalk(Tail(paths), fs,
                                     (key :> Append(sofar, pf)) @@ packages))

\* The inner and the outer loop of sortPackageFiles.
RECURSIVE sortInner(_, _, _)
sortInner(files, i, j) ==
  IF j > Len(files) THEN files
  ELSE IF Compare(files[i].Version, files[j].Version) < 0
    THEN sortInner([files EXCEPT ![i] = files[j], ![j] = files[i]], i, j + 1)
  ELSE sortInner(files, i, j + 1)

RECURSIVE sortOuter(_, _)
sortOuter(files, i) ==
  IF i >= Len(files) THEN files
  ELSE sortOuter(sortInner(files, i, i + 1), i + 1)

sortPackageFiles(files) == sortOuter(files, 1)

\* The paths of a sequence of package files.
Paths(pfs) == [i \in 1..Len(pfs) |-> pfs[i].Path]

\* One iteration of the loop of Prune over the groups: the group sorted,
\* its first `keep` paths kept, the others deleted.
pruneGroup(pkgs, keep) ==
  Let(sortPackageFiles(pkgs), LAMBDA sorted :
    LET n == IF keep < Len(sorted) THEN keep ELSE Len(sorted)
    IN  [Kept |-> Paths(SubSeq(sorted, 1, n)),
         Deleted |-> Paths(SubSeq(sorted, n + 1, Len(sorted)))])

\* The lists Kept and Deleted of a PruneResult: those of the groups, in the
\* order `keys` in which the map of groups is ranged over.
RECURSIVE pruneResult(_, _)
pruneResult(groups, keys) ==
  IF Len(keys) = 0 THEN [Kept |-> <<>>, Deleted |-> <<>>]
  ELSE Let(pruneResult(groups, Tail(keys)), LAMBDA rest :
         [Kept |-> groups[Head(keys)].Kept \o rest.Kept,
          Deleted |-> groups[Head(keys)].Deleted \o rest.Deleted])

\* A removal that does not look at DryRun.
removeDeleted_IgnoringDryRun(fs, deleted, dryRun) ==
  [p \in DOMAIN fs \ deleted |-> fs[p]]

\* The os.Remove calls of Prune: none in a dry run.
removeDeleted(fs, deleted, dryRun) ==
  IF dryRun THEN fs
  ELSE [p \in DOMAIN fs \ deleted |-> fs[p]]

\* cleanEmptyDirs: the walk reaches a directory before what is below it,
\* and removes the directory when it has no entry and is not the root.
\* parent maps each file and directory to the directory it is an entry of.
RECURSIVE cleanWalk(_, _, _, _, _)
cleanWalk(order, root, parent, fs, ds) ==
  IF Len(order) = 0 THEN ds
  ELSE LET path == Head(order)
           entries == { q \in (DOMAIN fs) \cup ds : parent[q] = path }
       IN  IF entries = {} /\ path # root
             THEN cleanWalk(Tail(order), root, parent, fs, ds \ {path})
           ELSE cleanWalk(Tail(order), root, parent, fs, ds)

cleanEmptyDirs(root, fs, ds) ==
  cleanWalk(WalkOrder({ d \in ds : d = root \/ Below(d, root) }), root,
            [q \in (DOMAIN fs) \cup ds |-> Dir(q)], fs, ds)

\* The orders in which a map with the keys S can be ranged over.
MapOrders(S) ==
  { o \in [1..Cardinality(S) -> S] :
      \A i, j \in 1..Cardinality(S) : o[i] = o[j] => i = j }

\* The walk of Prune over the pool directory.
PoolWalk(fs) ==
  pruneWalk(WalkOrder({ p \in DOMAIN fs : Below(p, PoolDir) }), fs, EmptyMap)

\* The elements of a sequence.
Range(seq) == { seq[i] : i \in 1..Len(seq) }

\* Repository.Prune(opts) on pool files fs and directories ds, walk being
\* what the walk over the pool gave: the error, or what each group keeps and
\* deletes and the pool that is left.
Prune(fs, ds, opts, walk) ==
  LET keep == IF opts.KeepVersions < 1 THEN DefaultKeepVersions
              ELSE opts.KeepVersions
      deleted(groups) ==
        UNION { Range(groups[key].Deleted) : key \in DOMAIN groups }
  IN  IF walk.err # ""
        THEN [err |-> walk.err, path |-> walk.path, groups |-> EmptyMap,
              files |-> fs, dirs |-> ds]
      ELSE Let([key \in DOMAIN walk.packages |->
                  pruneGroup(walk.packages[key], keep)], LAMBDA groups :
             Let(removeDeleted(fs, deleted(groups), opts.DryRun), LAMBDA left :
               [err |-> "", path |-> <<>>, groups |-> groups, files |-> left,
                dirs |-> IF opts.DryRun THEN ds
                         ELSE cleanEmptyDirs(PoolDir, left, ds)]))

(***************************************************************************)
(* The index: Packages, its compressed forms, and Release.                 *)
(***************************************************************************)

\* DefaultConfig
Config ==
  [Origin |-> "Frostyard", Label |-> "Frostyard",
   Description |-> "Frostyard Debian Repository",
   Architectures |-> << <<"a", "m", "d", "6", "4">> >>,
   Components |-> << <<"m", "a", "i", "n">> >>,
   Distributions |-> <<"stable", "testing">>]

PackagesName == <<"P", "a", "c", "k", "a", "g", "e", "s">>
ReleaseName == <<"R", "e", "l", "e", "a", "s", "e">>
InReleaseName == <<"I", "n">> \o ReleaseName
GzSuffix == <<".", "g", "z">>
XzSuffix == <<".", "x", "z">>
GpgSuffix == <<".", "g", "p", "g">>

\* dists/<dist>/<comp>/binary-<arch>, below dists/<dist>.
BinaryDir(comp, arch) ==
  Join(<<comp, <<"b", "i", "n", "a", "r", "y", "-">> \o arch>>)

\* The contents of index files.
TextFile(body) == [kind |-> "text", body |-> body]
GzipFile(body) == [kind |-> "gzip", body |-> body]
XzFile(body) == [kind |-> "xz", body |-> body]

\* A less function that looks at the name only.
scanLess_NameOnly(x, y) == StrLess(x.Name, y.Name)

\* The less function of scanPool's sort.Slice: by name, then newest first.
scanLess(x, y) ==
  IF x.Name # y.Name THEN StrLess(x.Name, y.Name)
  ELSE Compare(x.Version, y.Version) > 0

\* sort.Slice on a short slice: an insertion sort.
RECURSIVE sortInsert(_, _)
sortInsert(data, j) ==
  IF j > 1 /\ scanLess(data[j], data[j - 1])
    THEN sortInsert([data EXCEPT ![j] = data[j - 1], ![j - 1] = data[j]],
                    j - 1)
  ELSE data

RECURSIVE sortSlice(_, _)
sortSlice(data, i) ==
  IF i > Len(data) THEN data ELSE sortSlice(sortInsert(data, i), i + 1)

\* A walk of scanPool without the filter by architecture.
RECURSIVE scanWalk_AnyArchitecture(_, _, _, _)
scanWalk_AnyArchitecture(paths, fs, arch, packages) ==
  IF Len(paths) = 0 THEN [err |-> "", packages |-> packages]
  ELSE LET path == Head(paths)
       IN  IF ~HasSuffix(path, DebSuffix)
             THEN scanWalk_AnyArchitecture(Tail(paths), fs, arch, packages)
           ELSE Let(ParseFile(fs[path]), LAMBDA r :
                  IF r.err # "" THEN [err |-> "parse", packages |-> <<>>]
                  ELSE scanWalk_AnyArchitecture(Tail(paths), fs, arch,
                         Append(packages, [r.pkg EXCEPT !.Filename = path])))

\* A walk of scanPool that passes over the files that do not parse.
RECURSIVE scanWalk_Skipping(_, _, _, _)
scanWalk_Skipping(paths, fs, arch, packages) ==
  IF Len(paths) = 0 THEN [err |-> "", packages |-> packages]
  ELSE LET path == Head(paths)
       IN  IF ~HasSuffix(path, DebSuffix)
             THEN scanWalk_Skipping(Tail(paths), fs, arch, packages)
           ELSE Let(ParseFile(fs[path]), LAMBDA r :
                  IF r.err # ""
                    THEN scanWalk_Skipping(Tail(paths), fs, arch, packages)
                  ELSE IF r.pkg.Architecture # arch
                          /\ r.pkg.Architecture # AllArch
                    THEN scanWalk_Skipping(Tail(paths), fs, arch, packages)
                  ELSE scanWalk_Skipping(Tail(paths), fs, arch,
                         Append(packages, [r.pkg EXCEPT !.Filename = path])))

\* The walk of scanPool: the packages of the .deb files of one architecture
\* or of "all", each with its path as Filename; the first file that does not
\* parse ends the walk with an error.
RECURSIVE scanWalk(_, _, _, _)
scanWalk(paths, fs, arch, packages) ==
  IF Len(paths) = 0 THEN [err |-> "", packages |-> packages]
  ELSE LET path == Head(paths)
       IN  IF ~HasSuffix(path, DebSuffix)
             THEN scanWalk(Tail(paths), fs, arch, packages)
           ELSE Let(ParseFile(fs[path]), LAMBDA r :
                  IF r.err # "" THEN [err |-> "parse", packages |-> <<>>]
                  ELSE IF r.pkg.Architecture # arch
                          /\ r.pkg.Architecture # AllArch
                    THEN scanWalk(Tail(paths), fs, arch, packages)
                  ELSE scanWalk(Tail(paths), fs, arch,
                         Append(packages, [r.pkg EXCEPT !.Filename = path])))

scanPool(fs, poolDir, arch) ==
  Let(scanWalk(WalkOrder({ p \in DOMAIN fs : Below(p, poolDir) }),
               fs, arch, <<>>), LAMBDA walk :
    IF walk.err # "" THEN walk
    ELSE [err |-> "", packages |-> sortSlice(walk.packages, 2)])

\* The text of a Packages file: each stanza followed by an empty line.
RECURSIVE packagesContent(_)
packagesContent(packages) ==
  IF Len(packages) = 0 THEN <<>>
  ELSE ControlString(Head(packages)) \o <<"\n">>
         \o packagesContent(Tail(packages))

\* A generatePackagesForArch that appends to the Packages file it finds.
generatePackagesForArch_Appending(tree, fs, comp, arch, xzOk) ==
  Let2(scanPool(fs, Join(<<PoolName, comp>>), arch),
       Join(<<BinaryDir(comp, arch), PackagesName>>),
       LAMBDA scan, packagesPath :
    IF scan.err # "" THEN [err |-> "scan pool", tree |-> tree]
    ELSE Let((IF packagesPath \in DOMAIN tree THEN tree[packagesPath].body
              ELSE <<>>) \o packagesContent(scan.packages), LAMBDA content :
           [err |-> "",
            tree |-> (IF xzOk
                        THEN (packagesPath \o XzSuffix :> XzFile(content))
                      ELSE EmptyMap)
                     @@ (packagesPath :> TextFile(content))
                     @@ (packagesPath \o GzSuffix :> GzipFile(content))
                     @@ tree]))

\* A generatePackagesForArch that returns the error of the xz command.
generatePackagesForArch_XzRequired(tree, fs, comp, arch, xzOk) ==
  Let2(scanPool(fs, Join(<<PoolName, comp>>), arch),
       Join(<<BinaryDir(comp, arch), PackagesName>>),
       LAMBDA scan, packagesPath :
    IF scan.err # "" THEN [err |-> "scan pool", tree |-> tree]
    ELSE Let(packagesContent(scan.packages), LAMBDA content :
           [err |-> IF xzOk THEN "" ELSE "create Packages.xz",
            tree |-> (IF xzOk
                        THEN (packagesPath \o XzSuffix :> XzFile(content))
                      ELSE EmptyMap)
                     @@ (packagesPath :> TextFile(content))
                     @@ (packagesPath \o GzSuffix :> GzipFile(content))
                     @@ tree]))

\* A generatePackagesForArch that writes nothing when the Packages file
\* already has the content it would write.
generatePackagesForArch_SkippingUnchanged(tree, fs, comp, arch, xzOk) ==
  Let2(scanPool(fs, Join(<<PoolName, comp>>), arch),
       Join(<<BinaryDir(comp, arch), PackagesName>>),
       LAMBDA scan, packagesPath :
    IF scan.err # "" THEN [err |-> "scan pool", tree |-> tree]
    ELSE Let(packagesContent(scan.packages), LAMBDA content :
           IF /\ packagesPath \in DOMAIN tree
              /\ tree[packagesPath] = TextFile(content)
             THEN [err |-> "", tree |-> tree]
           ELSE [err |-> "",
                 tree |-> (IF xzOk
                             THEN (packagesPath \o XzSuffix :> XzFile(content))
                           ELSE EmptyMap)
                          @@ (packagesPath :> TextFile(content))
                          @@ (packagesPath \o GzSuffix :> GzipFile(content))
                          @@ tree]))

\* generatePackagesForArch on the tree of one distribution; xzOk is whether
\* the xz command succeeds.
generatePackagesForArch(tree, fs, comp, arch, xzOk) ==
  Let2(scanPool(fs, Join(<<PoolName, comp>>), arch),
       Join(<<BinaryDir(comp, arch), PackagesName>>),
       LAMBDA scan, packagesPath :
    IF scan.err # "" THEN [err |-> "scan pool", tree |-> tree]
    ELSE Let(packagesContent(scan.packages), LAMBDA content :
           [err |-> "",
            tree |-> (IF xzOk
                        THEN (packagesPath \o XzSuffix :> XzFile(content))
                      ELSE EmptyMap)
                     @@ (packagesPath :> TextFile(content))
                     @@ (packagesPath \o GzSuffix :> GzipFile(content))
                     @@ tree]))

\* GeneratePackagesIndex: every component and architecture in turn, up to
\* the first error.
RECURSIVE generateEach(_, _, _, _)
generateEach(pairs, tree, fs, xzOk) ==
  IF Len(pairs) = 0 THEN [err |-> "", tree |-> tree]
  ELSE Let(generatePackagesForArch(tree, fs, Head(pairs)[1],
                                   Head(pairs)[2], xzOk), LAMBDA g :
         IF g.err # "" THEN g
         ELSE generateEach(Tail(pairs), g.tree, fs, xzOk))

\* The pairs of the two nested loops of GeneratePackagesIndex, in order.
RECURSIVE loopPairs(_, _)
loopPairs(comps, archs) ==
  IF Len(comps) = 0 THEN <<>>
  ELSE [i \in 1..Len(archs) |-> <<Head(comps), archs[i]>>]
         \o loopPairs(Tail(comps), archs)

GeneratePackagesIndex(tree, fs, xzOk) ==
  generateEach(loopPairs(Config.Components, Config.Architectures),
               tree, fs, xzOk)

\* newReleaseFile: path, size and digests of one file.
newReleaseFile(content, relPath) ==
  [Path |-> relPath, Size |-> Len(content.body),
   MD5 |-> <<"md5", content>>, SHA1 |-> <<"sha1", content>>,
   SHA256 |-> <<"sha256", content>>]

\* The walk of GenerateRelease: the files whose name starts with Packages
\* or Release, but for Release, Release.gpg and InRelease.
RECURSIVE releaseWalk(_, _, _)
releaseWalk(paths, tree, files) ==
  IF Len(paths) = 0 THEN files
  ELSE Let2(Head(paths), Base(Head(paths)), LAMBDA path, name :
         IF ~HasPrefix(name, PackagesName) /\ ~HasPrefix(name, ReleaseName)
           THEN releaseWalk(Tail(paths), tree, files)
         ELSE IF name = ReleaseName \/ name = ReleaseName \o GpgSuffix
                 \/ name = InReleaseName
           THEN releaseWalk(Tail(paths), tree, files)
         ELSE releaseWalk(Tail(paths), tree,
                          Append(files, newReleaseFile(tree[path], path))))

\* GenerateRelease on the tree of distribution dist at time now.
GenerateRelease(tree, dist, now) ==
  Let(releaseWalk(WalkOrder(DOMAIN tree), tree, <<>>), LAMBDA fl :
    (ReleaseName :>
       [kind |-> "release", Origin |-> Config.Origin,
        Label |-> Config.Label, Suite |-> dist, Codename |-> dist,
        Architectures |-> Config.Architectures,
        Components |-> Config.Components,
        Description |-> Config.Description, Date |-> now,
        MD5Sum |-> [i \in 1..Len(fl) |->
                      <<fl[i].MD5, fl[i].Size, fl[i].Path>>],
        SHA1 |-> [i \in 1..Len(fl) |->
                    <<fl[i].SHA1, fl[i].Size, fl[i].Path>>],
        SHA256 |-> [i \in 1..Len(fl) |->
                      <<fl[i].SHA256, fl[i].Size, fl[i].Path>>]])
    @@ tree)

\* Repository.Init on an absent root: the tree of each distribution holds an
\* empty Packages file for each component and architecture, and the pool
\* directory exists.
InitTree ==
  LET pairs == loopPairs(Config.Components, Config.Architectures)
  IN  [p \in { Join(<<BinaryDir(pairs[i][1], pairs[i][2]), PackagesName>>) :
               i \in 1..Len(pairs) } |-> TextFile(<<>>)]

\* Signer.SignRelease on the tree of one distribution: the old signatures
\* are removed, then gpg writes Release.gpg and InRelease from Release.
\* gpgOk is whether gpg succeeds when Release is there.
SignRelease(tree, gpgOk) ==
  Let([p \in DOMAIN tree \ {ReleaseName \o GpgSuffix, InReleaseName} |->
         tree[p]], LAMBDA removed :
    IF ReleaseName \notin DOMAIN tree \/ ~gpgOk
      THEN [err |-> "create Release.gpg", tree |-> removed]
    ELSE [err |-> "",
          tree |-> (ReleaseName \o GpgSuffix :>
                      [kind |-> "detached", of |-> tree[ReleaseName]])
                   @@ (InReleaseName :>
                         [kind |-> "clearsign", of |-> tree[ReleaseName]])
                   @@ removed])

\* The Packages paths of the configuration, below dists/<dist>.
PackagesPaths ==
  LET pairs == loopPairs(Config.Components, Config.Architectures)
  IN  { Join(<<BinaryDir(pairs[i][1], pairs[i][2]), PackagesName>>) :
          i \in 1..Len(pairs) }

\* An Init that writes the empty Packages file without a look at what is
\* there.
initTree_Truncating(tree) ==
  [p \in PackagesPaths |-> TextFile(<<>>)] @@ tree

\* The loop of Repository.Init on the tree of one distribution: an empty
\* Packages file is written where os.Stat finds none.
initTree(tree) ==
  [p \in PackagesPaths \ DOMAIN tree |-> TextFile(<<>>)] @@ tree

\* Repository.Init on the trees of the distributions and the directories
\* of the pool.
RepositoryInit(trees, ds) ==
  [dists |-> [d \in DOMAIN trees |-> initTree(trees[d])],
   dirs |-> ds \cup MkdirAll(PoolDir)]

(***************************************************************************)
(* State.                                                                  *)
(*   va, vb, vc, vres   the version inputs and the result of the last      *)
(*                      version operation applied to them;                 *)
(*   pkg, fname, pout   a package record, a file name, and the result of   *)
(*                      the last Package method applied to them;           *)
(*   files, dirs        the pool: its .deb files by path, its directories; *)
(*   dists              the tree of each distribution: contents by path    *)
(*                      below dists/<dist>;                                *)
(*   last               the last Repository operation: its arguments, what *)
(*                      it returned, and the state it started from.        *)
(***************************************************************************)
VARIABLES va, vb, vc, vres, pkg, fname, pout, files, dirs, dists, last

versionVars == <<va, vb, vc, vres>>
packageVars == <<pkg, fname, pout>>
repoVars == <<files, dirs, dists, last>>
vars == <<va, vb, vc, vres, pkg, fname, pout, files, dirs, dists, last>>

\* No version operation, no Package method under way.
IdleVersion == va = <<>> /\ vb = <<>> /\ vc = <<>> /\ vres = [op |-> "none"]
IdlePackage == pkg = EmptyPackage /\ fname = <<>> /\ pout = [op |-> "none"]

\* The repository as Repository.Init leaves it.
InitRepo ==
  /\ files = EmptyMap
  /\ dirs = MkdirAll(PoolDir)
  /\ dists = [d \in {"stable", "testing"} |-> InitTree]
  /\ last = [op |-> "Init"]

(***************************************************************************)
(* Bounds and input universes of the version operations.                   *)
(***************************************************************************)

\* The longest version string enumerated exhaustively.
MaxVerLen == 2

\* One digit that is a leading zero, one other digit, a letter, the tilde,
\* and the two characters the version grammar gives a meaning to.
VerAlphabet == {"0", "1", "a", "~", "-", ":"}

\* All sequences over alphabet A of length at most n.
RECURSIVE StringsUpTo(_, _)
StringsUpTo(A, n) ==
  IF n = 0 THEN {<<>>}
  ELSE LET shorter == StringsUpTo(A, n - 1)
       IN  shorter \cup
           {Append(s, c) : s \in {t \in shorter : Len(t) = n - 1}, c \in A}

\* The versions of the repository's tests (version_test.go), and versions
\* with a hyphen inside the upstream part and with an epoch at the int64 limit.
SpecialVersions ==
  { <<"1",".","0">>, <<"2",".","0">>, <<"1",".","0",".","0">>,
    <<"1",".","0",".","1","0">>, <<"1",".","0",".","9">>,
    <<"1",":","1",".","0">>, <<"2",":","1",".","0">>,
    <<"1",".","0","-","1">>, <<"1",".","0","~","r","c","1">>,
    <<"1",".","0","~","1">>, <<"1",".","0","a">>,
    <<"1",".","0","-","2","-","3">>,
    <<"2",":","1",".","0",".","0","-","u","b","u","n","t","u","1">>,
    MaxInt64 \o <<":","1">>, TwoPow63 \o <<":","1">> }

Versions == StringsUpTo(VerAlphabet, MaxVerLen) \cup SpecialVersions

\* The third operand of the order laws.
Probes == { <<"1">>, <<"1","~">>, <<"0",":","1">>, <<"1","-","a">> }

\* The characters appended to a version to observe the order of a non-digit
\* run; <<>> stands for the end of the string.
OrderChars == { <<>>, <<"~">>, <<"a">>, <<"Z">>, <<".">> }

(***************************************************************************)
(* Version operations.                                                     *)
(***************************************************************************)

InitVersion ==
  /\ va \in Versions
  /\ vb \in Versions
  /\ vc = <<>>
  /\ vres = [op |-> "none"]
  /\ IdlePackage
  /\ InitRepo

\* Compare applied to every ordered pair of va, vb and a third operand.
DoCompare ==
  /\ vres.op = "none"
  /\ \E c \in Probes :
       /\ vc' = c
       /\ vres' = [op |-> "Compare",
                   m |-> LET v == <<va, vb, c>>
                         IN  [i \in 1..3 |->
                               [j \in 1..3 |-> Compare(v[i], v[j])]]]
  /\ UNCHANGED <<va, vb, packageVars, repoVars>>

\* Compare applied to va and to va extended by a suffix.
DoCompareSuffix ==
  /\ vres.op = "none"
  /\ vres' = [op |-> "Suffix",
              tilde |-> Compare(va \o <<"~">> \o vb, va),
              dotzero |-> Compare(va \o <<".", "0">>, va),
              dashzero |-> Compare(va, va \o <<"-", "0">>),
              order |-> [c \in OrderChars |->
                          [d \in OrderChars |-> Compare(va \o c, va \o d)]]]
  /\ UNCHANGED <<va, vb, vc, packageVars, repoVars>>

NextCompare == DoCompare \/ DoCompareSuffix

SpecCompare == InitVersion /\ [][NextCompare]_vars

InitParse ==
  /\ va \in Versions
  /\ vb = <<>>
  /\ vc = <<>>
  /\ vres = [op |-> "none"]
  /\ IdlePackage
  /\ InitRepo

DoParse ==
  /\ vres.op = "none"
  /\ vres' = [op |-> "Parse", out |-> ParseVersion(va)]
  /\ UNCHANGED <<va, vb, vc, packageVars, repoVars>>

NextParse == DoParse

SpecParse == InitParse /\ [][NextParse]_vars

(***************************************************************************)
(* SortVersions.                                                           *)
(***************************************************************************)

\* The inner loop of SortVersions with an assignment in place of the
\* exchange.
RECURSIVE sortVersionsInner_Overwriting(_, _, _)
sortVersionsInner_Overwriting(versions, i, j) ==
  IF j > Len(versions) THEN versions
  ELSE IF Compare(versions[i], versions[j]) < 0
    THEN sortVersionsInner_Overwriting([versions EXCEPT ![i] = versions[j]],
                                       i, j + 1)
  ELSE sortVersionsInner_Overwriting(versions, i, j + 1)

\* The inner and the outer loop of SortVersions.
RECURSIVE sortVersionsInner(_, _, _)
sortVersionsInner(versions, i, j) ==
  IF j > Len(versions) THEN versions
  ELSE IF Compare(versions[i], versions[j]) < 0
    THEN sortVersionsInner([versions EXCEPT ![i] = versions[j],
                                            ![j] = versions[i]], i, j + 1)
  ELSE sortVersionsInner(versions, i, j + 1)

RECURSIVE sortVersionsOuter(_, _)
sortVersionsOuter(versions, i) ==
  IF i >= Len(versions) THEN versions
  ELSE sortVersionsOuter(sortVersionsInner(versions, i, i + 1), i + 1)

\* SortVersions: the slice after the call.
SortVersions(versions) == sortVersionsOuter(versions, 1)

\* The longest slice of the enumerated arguments of SortVersions.
MaxSortLen == 3

\* The versions of the slices: those of TestSortVersions, a second spelling
\* of 1.0, versions with an epoch, a revision, a letter, and an epoch
\* beyond int64.
SortPool ==
  { <<"1",".","0">>, <<"2",".","0">>, <<"1",".","5">>,
    <<"1",".","0","~","r","c","1">>, <<"2",".","0",".","1">>,
    <<"1",".","0","0">>, <<"1",":","1",".","0">>, <<"0",":","2",".","0">>,
    <<"1",".","0","-","1">>, <<"1",".","0","a">>, TwoPow63 \o <<":","1">> }

\* The slice of TestSortVersions and its expected result.
TestSortInput ==
  << <<"1",".","0">>, <<"2",".","0">>, <<"1",".","5">>,
     <<"1",".","0","~","r","c","1">>, <<"2",".","0",".","1">> >>
TestSortExpected ==
  << <<"2",".","0",".","1">>, <<"2",".","0">>, <<"1",".","5">>,
     <<"1",".","0">>, <<"1",".","0","~","r","c","1">> >>

SortInputs ==
  UNION { [1..n -> SortPool] : n \in 0..MaxSortLen } \cup {TestSortInput}

InitSort == IdleVersion /\ IdlePackage /\ InitRepo

\* SortVersions on a slice.
DoSortVersions ==
  /\ vres.op = "none"
  /\ \E versions \in SortInputs :
       vres' = [op |-> "Sort", in |-> versions, out |-> SortVersions(versions)]
  /\ UNCHANGED <<va, vb, vc, packageVars, repoVars>>

NextSort == DoSortVersions

SpecSort == InitSort /\ [][NextSort]_vars

(***************************************************************************)
(* Package methods: the control stanza round trip and the pool path.       *)
(***************************************************************************)


\* Package names: the names of TestPackagePoolPath's shapes (a plain name,
\* lib names of length 3, 4 and more, a proper prefix of "lib"), a name
\* with an underscore, and a name that is a path element of its own.
PackageNames ==
  { <<"m", "y">>, <<"a">>, <<"l">>, <<"l", "i">>, <<"l", "i", "b">>,
    <<"l", "i", "b", "c">>, <<"l", "i", "b", "f", "o", "o">>,
    <<"a", "_", "b">>, <<".">> }

\* The records a Package method is applied to: what deb.Parse and scanPool
\* leave in a Package, with optional fields present or absent.
PackageRecords ==
  { [EmptyPackage EXCEPT
       !.Name = n, !.Version = v, !.Architecture = Amd64,
       !.Maintainer = m, !.Description = d, !.Depends = dep,
       !.InstalledSize = isz, !.Size = sz.size, !.MD5sum = sz.sum,
       !.SHA1 = sz.sum, !.SHA256 = sz.sum, !.Filename = sz.file] :
    n \in PackageNames,
    v \in { <<"1">>, <<"1", ".", "0", "-", "1">> },
    m \in { <<>>, <<"m", " ", "e">> },
    d \in { <<>>, <<"d">>, <<"d", "\n", " ", "x", "\n", " ", ".">> },
    dep \in { <<>>, <<"x", ",", " ", "y">> },
    isz \in { 0, 12 },
    sz \in { [size |-> 0, sum |-> <<>>, file |-> <<>>],
             [size |-> 1024, sum |-> <<"a", "b", "1">>,
              file |-> PoolName \o <<"/">> \o MainName \o <<"/", "a">>] } }

\* The file names handed to PoolPath.
FileNames ==
  { <<>>, <<"a">> \o DebSuffix, <<"m", "y", "_", "1", "_">> \o Amd64 \o DebSuffix,
    <<".">> }

InitPackage ==
  /\ IdleVersion
  /\ pkg \in PackageRecords
  /\ fname \in FileNames
  /\ pout = [op |-> "none"]
  /\ InitRepo

\* ControlString, and parseControl applied to its text.
DoRoundTrip ==
  /\ pout.op = "none"
  /\ pout' = [op |-> "RoundTrip", text |-> ControlString(pkg),
              parsed |-> parseControl(ControlString(pkg))]
  /\ UNCHANGED <<versionVars, pkg, fname, repoVars>>

DoPoolPath ==
  /\ pout.op = "none"
  /\ pout' = [op |-> "PoolPath", path |-> PoolPath(pkg, fname)]
  /\ UNCHANGED <<versionVars, pkg, fname, repoVars>>

DoDebFilename ==
  /\ pout.op = "none"
  /\ pout' = [op |-> "DebFilename", name |-> DebFilename(pkg)]
  /\ UNCHANGED <<versionVars, pkg, fname, repoVars>>

NextPackage == DoRoundTrip \/ DoPoolPath \/ DoDebFilename

SpecPackage == InitPackage /\ [][NextPackage]_vars

(***************************************************************************)
(* deb.Parse on archives: the control member and the control file.         *)
(***************************************************************************)

\* The suffixes of the name control.tar of a control member: none (a plain
\* tar), gzip, xz, zstd, and two compressions deb.go does not name.
Bz2Suffix == <<".", "b", "z", "2">>
LzmaSuffix == <<".", "l", "z", "m", "a">>
MemberSuffixes ==
  { <<>>, <<".", "g", "z">>, <<".", "x", "z">>, <<".", "z", "s", "t">>,
    Bz2Suffix, LzmaSuffix }

\* The lines a control file may give to a required field: none, the field
\* with an empty value, with a blank value, and with a value.
FieldLines(name, value) ==
  { <<>>, <<name, ":", "\n">>, <<name, ":", " ", " ", "\n">>,
    <<name, ":", " ">> \o value \o <<"\n">> }

ControlTexts ==
  { p \o v \o a \o m :
      p \in FieldLines("Package", <<"a">>),
      v \in FieldLines("Version", <<"1">>),
      a \in FieldLines("Architecture", Amd64),
      m \in { <<>>, <<"Maintainer", ":", " ", "m", "\n">> } }

\* The control members of the archives: every suffix with the payload it
\* announces or with a plain tar under that name, the tar readable or not
\* and with or without a control entry; and a gzip member with every
\* control text.
ControlMembers ==
  { [name |-> ControlTar \o suffix \o slash, enc |-> enc, tarOk |-> ok,
     entries |-> entries] :
      suffix \in MemberSuffixes, slash \in { <<>>, <<"/">> },
      enc \in { "gzip", "xz", "zst", "bz2", "lzma", "tar" },
      ok \in BOOLEAN,
      entries \in { <<>>,
                     << [name |-> <<"m", "d", "5">>, body |-> <<>>],
                        [name |-> ControlName, body |-> CompleteText] >>,
                     << [name |-> <<".", "/">> \o ControlName,
                         body |-> CompleteText] >> } }
  \cup { ControlMember(ControlTar \o <<".", "g", "z">>, "gzip", text) :
            text \in ControlTexts }

\* The archives handed to Parse: a file that is no ar archive, an archive
\* without a control member, and an archive with each control member.
Archives ==
  { [ar |-> FALSE, data |-> <<"x">>, members |-> <<>>],
    [ar |-> TRUE, data |-> <<"x">>, members |-> <<DebianBinary, DataTar>>] }
  \cup { [ar |-> TRUE, data |-> <<"x">>,
           members |-> <<DebianBinary, member, DataTar>>] :
            member \in ControlMembers }

InitExtract == IdleVersion /\ IdlePackage /\ InitRepo

\* deb.Parse on an archive.
DoParseDeb ==
  /\ pout.op = "none"
  /\ \E file \in Archives :
       pout' = [op |-> "Parse", file |-> file, out |-> Parse(file)]
  /\ UNCHANGED <<versionVars, pkg, fname, repoVars>>

NextExtract == DoParseDeb

SpecExtract == InitExtract /\ [][NextExtract]_vars

(***************************************************************************)
(* parseControl on control files with continuation lines.                  *)
(***************************************************************************)

\* The most lines a control file has beside its three required fields.
MaxControlLines == 3

\* The lines of the control files: fields with a value, with blanks around
\* the value and without a value, continuation lines that start with a
\* space or a tab, an empty line, a line without a colon, and a line that
\* starts with a colon.
ControlLines ==
  { <<"Description", ":", " ", "d">>,
    <<"Description", ":", " ", " ", "d", " ">>,
    <<"Description", ":">>,
    <<"Depends", ":", " ", "y">>,
    <<" ", "x">>, <<"\t", "y", " ">>, <<" ", ".">>,
    <<>>, <<"j">>, <<":", " ", "v">> }

\* The three required fields.
RequiredLines ==
  << <<"Package", ":", " ", "a">>, <<"Version", ":", " ", "1">>,
     <<"Architecture", ":", " ">> \o Amd64 >>

\* The text of a sequence of lines, each ended by a newline.
RECURSIVE TextOf(_)
TextOf(lines) ==
  IF Len(lines) = 0 THEN <<>>
  ELSE Head(lines) \o <<"\n">> \o TextOf(Tail(lines))

\* The control files: the required fields before or after up to
\* MaxControlLines other lines.
ControlFiles ==
  { TextOf(IF first THEN RequiredLines \o body ELSE body \o RequiredLines) :
      first \in BOOLEAN,
      body \in UNION { [1..n -> ControlLines] : n \in 0..MaxControlLines } }

InitControl == IdleVersion /\ IdlePackage /\ InitRepo

\* parseControl on a control file.
DoParseControl ==
  /\ pout.op = "none"
  /\ \E data \in ControlFiles :
       pout' = [op |-> "parseControl", data |-> data,
                out |-> parseControl(data)]
  /\ UNCHANGED <<versionVars, pkg, fname, repoVars>>

NextControl == DoParseControl

SpecControl == InitControl /\ [][NextControl]_vars

(***************************************************************************)
(* Repository operations.                                                  *)
(***************************************************************************)

\* The largest KeepVersions passed to Prune, and the latest time of a
\* Release.
MaxKeep == 2
MaxDate == 2

InitRepository == IdleVersion /\ IdlePackage /\ InitRepo

\* Repository.AddPackage(src.path, dist).
DoAddPackageTo(src, dist) ==
  \E r \in {AddPackage(files, dirs, src.path, src.file, dist)} :
    /\ files' = r.files
    /\ dirs' = r.dirs
    /\ last' = [op |-> "AddPackage", debPath |-> src.path, dist |-> dist,
                err |-> r.err,
                pkg |-> IF r.err = "" THEN r.pkg ELSE EmptyPackage]
    /\ UNCHANGED <<versionVars, packageVars, dists>>

\* AddPackage for the distribution the add command takes by default.
DoAddPackage(src) == DoAddPackageTo(src, "stable")

DoPrune ==
  \E walk \in {PoolWalk(files)} :
    \E keepVersions \in 0..MaxKeep, dryRun \in BOOLEAN :
      \E r \in {Prune(files, dirs, [KeepVersions |-> keepVersions,
                                   DryRun |-> dryRun], walk)} :
        \E keys \in MapOrders(DOMAIN r.groups) :
          /\ files' = r.files
          /\ dirs' = r.dirs
          /\ last' = [op |-> "Prune",
                      opts |-> [KeepVersions |-> keepVersions,
                                DryRun |-> dryRun],
                      err |-> r.err, errPath |-> r.path,
                      groups |-> r.groups,
                      result |-> pruneResult(r.groups, keys),
                      pre |-> [files |-> files, dirs |-> dirs,
                               dists |-> dists]]
          /\ UNCHANGED <<versionVars, packageVars, dists>>

\* GeneratePackagesIndex followed, when it succeeds, by GenerateRelease, as
\* the add and the index command call them.
DoGenerateIndex(dist) ==
  \E xzOk \in BOOLEAN, now \in 1..MaxDate :
    \E g \in {GeneratePackagesIndex(dists[dist], files, xzOk)} :
      /\ dists' = [dists EXCEPT ![dist] =
                     IF g.err # "" THEN g.tree
                     ELSE GenerateRelease(g.tree, dist, now)]
      /\ last' = [op |-> "GenerateIndex", dist |-> dist, xzOk |-> xzOk,
                  err |-> g.err, pre |-> dists[dist],
                  again |-> /\ last.op = "GenerateIndex"
                            /\ last.err = ""
                            /\ last.dist = dist
                            /\ last.xzOk = xzOk]
      /\ UNCHANGED <<versionVars, packageVars, files, dirs>>

NextPool ==
  \/ \E src \in Sources : DoAddPackage(src)
  \/ DoPrune

SpecPool == InitRepository /\ [][NextPool]_vars

NextIndex ==
  \/ \E src \in IndexSources : DoAddPackage(src)
  \/ \E dist \in {"stable"} : DoGenerateIndex(dist)

SpecIndex == InitRepository /\ [][NextIndex]_vars

\* The paths below the pool at which a file that does not parse turns up:
\* beside the versions of package a, and after every other file of the walk.
BrokenPaths ==
  { Join(<<PoolDir, <<"a">>, <<"a">>, <<"a", "_", "0">> \o DebSuffix>>),
    Join(<<PoolDir, <<"z">>, <<"z">>, <<"z", "_", "1">> \o DebSuffix>>) }

\* A file reaches the pool other than by a completed AddPackage: the copy
\* of copyFile was cut short, or the file was put there by hand.
DoPlaceFile ==
  \E path \in BrokenPaths, file \in BrokenFiles :
    /\ files' = (path :> file) @@ files
    /\ dirs' = dirs \cup MkdirAll(Dir(path))
    /\ last' = [op |-> "PlaceFile", path |-> path]
    /\ UNCHANGED <<versionVars, packageVars, dists>>

\* The files handed to AddPackage before a file that does not parse turns
\* up: two versions of package a for amd64.
FaultSources ==
  { Named(<<"a">>, <<"1">>, Amd64), Named(<<"a">>, <<"2">>, Amd64) }

NextFault ==
  \/ \E src \in FaultSources : DoAddPackage(src)
  \/ DoPlaceFile
  \/ DoPrune
  \/ \E dist \in {"stable"} : DoGenerateIndex(dist)

SpecFault == InitRepository /\ [][NextFault]_vars

\* AddPackage with a copy that fails.
DoAddPackageCopyFails(src) ==
  \E r \in {AddPackageCopyFails(files, dirs, src.path, src.file)} :
    /\ files' = r.files
    /\ dirs' = r.dirs
    /\ last' = [op |-> "AddPackage", debPath |-> src.path, err |-> r.err,
                pkg |-> EmptyPackage]
    /\ UNCHANGED <<versionVars, packageVars, dists>>

\* The files whose copy into the pool fails.
CleanSources ==
  { Named(<<"l", "i", "b", "a">>, <<"1">>, AllArch),
    Named(<<"a">>, <<"1", "0">>, Amd64) }

NextClean ==
  \/ \E src \in FaultSources : DoAddPackage(src)
  \/ \E src \in CleanSources : DoAddPackageCopyFails(src)
  \/ DoPrune

SpecClean == InitRepository /\ [][NextClean]_vars

\* The file handed to AddPackage around Init and around GenerateRelease.
InitSources == { Named(<<"a">>, <<"1">>, Amd64) }

\* Files below dists/<dist> that no command of the program writes: a copy
\* of an old Release, a copy of an old Packages file, and a file of notes.
ForeignFiles ==
  { ReleaseName \o <<".", "o", "l", "d">>,
    Join(<<BinaryDir(MainName, Amd64),
           PackagesName \o <<".", "b", "a", "k">>>>),
    <<"n", "o", "t", "e", "s">> }

\* A file is put below dists/<dist> by hand.
DoPlaceDistFile(dist) ==
  \E path \in ForeignFiles :
    /\ dists' = [dists EXCEPT ![dist] = (path :> TextFile(<<"x">>)) @@ @]
    /\ last' = [op |-> "PlaceDistFile", dist |-> dist, path |-> path]
    /\ UNCHANGED <<versionVars, packageVars, files, dirs>>

\* Signer.SignRelease, as the sign command calls it.
DoSignRelease(dist) ==
  \E gpgOk \in BOOLEAN :
    \E r \in {SignRelease(dists[dist], gpgOk)} :
      /\ dists' = [dists EXCEPT ![dist] = r.tree]
      /\ last' = [op |-> "SignRelease", dist |-> dist, err |-> r.err]
      /\ UNCHANGED <<versionVars, packageVars, files, dirs>>

NextRelease ==
  \/ \E src \in InitSources : DoAddPackage(src)
  \/ \E dist \in {"stable"} : DoGenerateIndex(dist)
  \/ \E dist \in {"stable"} : DoSignRelease(dist)
  \/ \E dist \in {"stable"} : DoPlaceDistFile(dist)

SpecRelease == InitRepository /\ [][NextRelease]_vars

\* The repository New returns for a root that does not exist.
InitNew ==
  /\ IdleVersion
  /\ IdlePackage
  /\ files = EmptyMap
  /\ dirs = {}
  /\ dists = [d \in Range(Config.Distributions) |-> EmptyMap]
  /\ last = [op |-> "New"]

\* Repository.Init, as the init command calls it.
DoInit ==
  \E r \in {RepositoryInit(dists, dirs)} :
    /\ dists' = r.dists
    /\ dirs' = r.dirs
    /\ last' = [op |-> "Init", pre |-> dists]
    /\ UNCHANGED <<versionVars, packageVars, files>>

NextInit ==
  \/ DoInit
  \/ \E src \in InitSources : DoAddPackage(src)
  \/ \E dist \in Range(Config.Distributions) : DoGenerateIndex(dist)

SpecInit == InitNew /\ [][NextInit]_vars

(***************************************************************************)
(* The version grammar [epoch:]upstream[-revision] as the specification    *)
(* states it, used to state the properties below.                          *)
(***************************************************************************)

\* Whether v starts with digits followed by a colon.
HasEpochPrefix(v) ==
  LET d == DigitPrefixLen(v) IN d > 0 /\ Len(v) > d /\ v[d + 1] = ":"

\* The number the epoch prefix denotes (0 without a prefix), unbounded.
GrammarEpoch(v) ==
  IF HasEpochPrefix(v)
    THEN LET t == TrimLeftZeros(SubSeq(v, 1, DigitPrefixLen(v)))
         IN  IF t = <<>> THEN <<"0">> ELSE t
  ELSE <<"0">>

\* What follows the epoch prefix.
GrammarBody(v) ==
  IF HasEpochPrefix(v) THEN SubSeq(v, DigitPrefixLen(v) + 2, Len(v)) ELSE v

\* The position of the last "-" of s, 0 when there is none.
RECURSIVE LastHyphen(_)
LastHyphen(s) ==
  IF Len(s) = 0 THEN 0
  ELSE IF s[Len(s)] = "-" THEN Len(s)
  ELSE LastHyphen(SubSeq(s, 1, Len(s) - 1))

GrammarUpstream(v) ==
  LET r == GrammarBody(v)
      h == LastHyphen(r)
  IN  IF h = 0 THEN r ELSE SubSeq(r, 1, h - 1)

GrammarRevision(v) ==
  LET r == GrammarBody(v)
      h == LastHyphen(r)
  IN  IF h = 0 THEN <<>> ELSE SubSeq(r, h + 1, Len(r))

\* A version string of the grammar: a non-empty upstream that does not start
\* with a hyphen and, after a hyphen, a non-empty revision.
WellFormedVersion(v) ==
  LET r == GrammarBody(v)
  IN  Len(r) > 0 /\ r[1] # "-" /\ r[Len(r)] # "-"

(***************************************************************************)
(* Properties of the version operations.                                   *)
(***************************************************************************)

\* C1: Compare is a strict weak order: Compare(a,a) = 0, Compare(a,b) =
\* -Compare(b,a), and Compare(a,b) <= 0 with Compare(b,c) <= 0 implies
\* Compare(a,c) <= 0, for the three operands in every order.
C1_CompareIsWeakOrder ==
  vres.op = "Compare" =>
    /\ \A i \in 1..3 : vres.m[i][i] = 0
    /\ \A i, j \in 1..3 : vres.m[i][j] = 0 - vres.m[j][i]
    /\ \A i, j, k \in 1..3 :
         (vres.m[i][j] <= 0 /\ vres.m[j][k] <= 0) => vres.m[i][k] <= 0

\* Three operands that Compare ranks in a strict chain: the first below the
\* third, the third below the second.
C1_Witness ==
  /\ vres.op = "Compare"
  /\ vres.m[1][3] = -1 /\ vres.m[3][2] = -1
  /\ va = <<"0", "1">>

\* C7: for version strings whose epochs differ, Compare is decided by the
\* epochs alone: 1 when the first is greater, -1 when it is smaller.
C7_EpochDominates ==
  (/\ vres.op = "Compare"
   /\ WellFormedVersion(va) /\ WellFormedVersion(vb)
   /\ GrammarEpoch(va) # GrammarEpoch(vb))
  => vres.m[1][2] = (IF NumLess(GrammarEpoch(va), GrammarEpoch(vb)) THEN -1 ELSE 1)

\* The rank the specification gives to the characters of a non-digit run.
ClassRank(c) ==
  IF c = <<"~">> THEN 0
  ELSE IF c = <<>> THEN 1
  ELSE IF c \in {<<"a">>, <<"Z">>} THEN 2
  ELSE 3

C9_ParseDecomposes ==
  (vres.op = "Parse" /\ WellFormedVersion(va)) =>
    /\ vres.out.epoch = GrammarEpoch(va)
    /\ vres.out.upstream = GrammarUpstream(va)
    /\ vres.out.revision = GrammarRevision(va)

\* The fields of a record that are not empty: a string that is not "", a
\* number that is not 0.
NonEmptyFields(p) ==
  { f \in DOMAIN p : IF f \in {"Size", "InstalledSize"} THEN p[f] # 0
                     ELSE p[f] # <<>> }

\* C4: for every package record, parseControl applied to the text of
\* ControlString succeeds and returns a record equal to the original on
\* every field that is not empty in the original, Size, MD5sum, SHA1, SHA256
\* and Filename included.
C4_RoundTrip ==
  pout.op = "RoundTrip" =>
    /\ pout.parsed.err = ""
    /\ \A f \in NonEmptyFields(pkg) : pout.parsed.pkg[f] = pkg[f]

\* Whether a string is one element of a path that filepath.Clean keeps as
\* it is.
PlainElement(e) ==
  /\ e # <<>>
  /\ e # <<".">>
  /\ e # <<".", ".">>
  /\ \A i \in 1..Len(e) : e[i] # "/"

\* The prefix of a package name as the specification states it.
ClaimedPrefix(n) ==
  IF Len(n) > 3 /\ n[1] = "l" /\ n[2] = "i" /\ n[3] = "b"
    THEN <<n[1], n[2], n[3], n[4]>>
  ELSE <<n[1]>>

\* C10: PoolPath maps a non-empty package name to
\* pool/main/<prefix>/<name>/<filename>, where <prefix> is the first four
\* characters of a name that starts with "lib" and is longer than three
\* characters, and the first character of any other name.  The path is that
\* very string when prefix, name and file name are plain path elements, and
\* the same path in clean form otherwise.
C10_PoolPathPrefix ==
  pout.op = "PoolPath" =>
    LET prefix == ClaimedPrefix(pkg.Name)
        path == PoolName \o <<"/">> \o MainName \o <<"/">> \o prefix
                  \o <<"/">> \o pkg.Name \o <<"/">> \o fname
    IN  /\ pout.path = Clean(path)
        /\ (PlainElement(prefix) /\ PlainElement(pkg.Name)
              /\ PlainElement(fname)) => pout.path = path

\* A name of exactly three characters "lib" has gone to the directory l/lib.
C10_Witness ==
  /\ pout.op = "PoolPath"
  /\ pkg.Name = <<"l", "i", "b">>
  /\ fname = <<"a">> \o DebSuffix
  /\ pout.path = PoolName \o <<"/">> \o MainName
                   \o <<"/", "l", "/", "l", "i", "b", "/", "a">> \o DebSuffix

\* The record deb.Parse gives for the pool file at path p of pool fs.
RecordAt(fs, p) == ParseFile(fs[p]).pkg

\* The .deb files of pool fs that hold the same package name for the same
\* architecture as the file at p.
GroupOf(fs, p) ==
  { q \in DOMAIN fs :
      /\ HasSuffix(q, DebSuffix)
      /\ RecordAt(fs, q).Name = RecordAt(fs, p).Name
      /\ RecordAt(fs, q).Architecture = RecordAt(fs, p).Architecture }

\* C2: Prune partitions the .deb files of the pool into Kept and Deleted,
\* disjoint and together all of them; each (name, architecture) group keeps
\* exactly min(keepCount, size of the group) files; no deleted file of a
\* group has a version Compare ranks above a kept file of the group;
\* keepCount is 5 when the caller passes less than 1.
C2_PrunePartition ==
  (last.op = "Prune" /\ last.err = "") =>
    LET fs == last.pre.files
        debs == { p \in DOMAIN fs : HasSuffix(p, DebSuffix) }
        kept == Range(last.result.Kept)
        deleted == Range(last.result.Deleted)
        keepCount == IF last.opts.KeepVersions < 1 THEN 5
                     ELSE last.opts.KeepVersions
    IN  /\ kept \cap deleted = {}
        /\ kept \cup deleted = debs
        /\ \A p \in debs :
             LET size == Cardinality(GroupOf(fs, p))
             IN  Cardinality(GroupOf(fs, p) \cap kept)
                   = IF keepCount < size THEN keepCount ELSE size
        /\ \A d \in deleted : \A k \in GroupOf(fs, d) \cap kept :
             Compare(RecordAt(fs, d).Version, RecordAt(fs, k).Version) <= 0

\* C3: Prune with DryRun leaves every file and directory of the repository
\* as it was, and returns the sets of Kept and Deleted paths that Prune
\* without DryRun returns on the same pool with the same keepCount, in
\* whatever order the groups are ranged over.
C3_DryRunChangesNothing ==
  (last.op = "Prune" /\ last.opts.DryRun) =>
    /\ files = last.pre.files
    /\ dirs = last.pre.dirs
    /\ dists = last.pre.dists
    /\ LET real == Prune(last.pre.files, last.pre.dirs,
                         [last.opts EXCEPT !.DryRun = FALSE],
                         PoolWalk(last.pre.files))
       IN  /\ real.err = last.err
           /\ \A keys \in MapOrders(DOMAIN real.groups) :
                /\ Range(pruneResult(real.groups, keys).Kept)
                     = Range(last.result.Kept)
                /\ Range(pruneResult(real.groups, keys).Deleted)
                     = Range(last.result.Deleted)

\* A dry run with keepCount 2 has reported files as deleted which are still
\* in the pool.
C3_Witness ==
  /\ last.op = "Prune"
  /\ last.opts.DryRun
  /\ last.opts.KeepVersions = 2
  /\ Len(last.result.Deleted) >= 2
  /\ Range(last.result.Deleted) \subseteq DOMAIN files

\* The tree of a distribution with the Date of its Release left out.
StripDate(tree) ==
  [p \in DOMAIN tree |->
     IF tree[p].kind = "release" THEN [tree[p] EXCEPT !.Date = 0]
     ELSE tree[p]]

\* C5: when GeneratePackagesIndex followed by GenerateRelease runs a second
\* time for a distribution, nothing having happened since the first run and
\* xz behaving as it did, the second run leaves Packages and every other
\* file of the distribution as the first run left them, Release included but
\* for its Date.
C5_IndexIdempotent ==
  (last.op = "GenerateIndex" /\ last.err = "" /\ last.again) =>
    StripDate(dists[last.dist]) = StripDate(last.pre)

\* A second run over a pool that is not empty, at another time than the
\* first run, with xz at work.
C5_Witness ==
  /\ last.op = "GenerateIndex"
  /\ last.err = ""
  /\ last.again
  /\ last.xzOk
  /\ Cardinality(DOMAIN files) >= 2
  /\ ReleaseName \in DOMAIN last.pre
  /\ dists[last.dist][ReleaseName].Date # last.pre[ReleaseName].Date
  /\ Len(dists[last.dist][ReleaseName].SHA256) = 3

\* C6: AddPackage places the archive at
\* pool/main/<prefix>/<name>/<name>_<version>_<architecture>.deb, whatever
\* the name of the source file, and so the pool never holds two files of one
\* (name, version, architecture) triple.
C6_OneFilePerTriple ==
  /\ (last.op = "AddPackage" /\ last.err = "") =>
       last.pkg.Filename
         = PoolName \o <<"/">> \o MainName \o <<"/">>
             \o ClaimedPrefix(last.pkg.Name) \o <<"/">> \o last.pkg.Name
             \o <<"/">> \o last.pkg.Name \o <<"_">> \o last.pkg.Version
             \o <<"_">> \o last.pkg.Architecture \o DebSuffix
  /\ \A p, q \in DOMAIN files :
       (/\ RecordAt(files, p).Name = RecordAt(files, q).Name
        /\ RecordAt(files, p).Version = RecordAt(files, q).Version
        /\ RecordAt(files, p).Architecture = RecordAt(files, q).Architecture)
         => p = q

(***************************************************************************)
(* Properties of deb.Parse on archives (SpecExtract).                      *)
(***************************************************************************)

\* What the loop of Parse finds in the archive just parsed.
ControlOf(file) == readMembers(file.members, 1)

\* The name of the member Parse extracts, without a trailing slash, or the
\* empty name when the archive has no control member.
RECURSIVE ControlMemberName(_, _)
ControlMemberName(members, i) ==
  IF i > Len(members) THEN <<>>
  ELSE IF HasPrefix(TrimSuffix(members[i].name, <<"/">>), ControlTar)
    THEN TrimSuffix(members[i].name, <<"/">>)
  ELSE ControlMemberName(members, i + 1)

\* The control member of the parsed archive carries a compression suffix
\* other than gzip.
OtherCompression(file) ==
  /\ file.ar
  /\ ControlMemberName(file.members, 1) \notin
       { <<>>, ControlTar, ControlTar \o <<".", "g", "z">> }

\* C11: Parse of an archive whose control member carries a compression
\* suffix other than gzip (xz, zst or any other) returns no record and fails
\* with the error of an unsupported compression, which no unreadable tar
\* produces; the payload is never read as an uncompressed tar.
C11_UnsupportedCompression ==
  (pout.op = "Parse" /\ OtherCompression(pout.file)) =>
    /\ pout.out.err = "extract control"
    /\ pout.out.cause = extractControlWithCmd.err
    /\ "pkg" \notin DOMAIN pout.out

\* The lines of a control text that give the field a value that is not
\* blank.
GivesValue(text, name) ==
  \E i \in 1..Len(ScanLines(text)) :
    Let(ScanLines(text)[i], LAMBDA line :
      /\ Len(line) > 2
      /\ line[1] = name
      /\ line[2] = ":"
      /\ TrimSpace(SubSeq(line, 3, Len(line))) # <<>>)

\* The control file Parse read lacks one of the required fields, or gives
\* it an empty value.
LacksRequiredField(file) ==
  /\ file.ar
  /\ ControlOf(file).found
  /\ ControlOf(file).err = ""
  /\ \E name \in {"Package", "Version", "Architecture"} :
       ~GivesValue(ControlOf(file).data, name)

\* C12: every record Parse returns has a non-empty Name, Version and
\* Architecture, and a control file that lacks the Package, Version or
\* Architecture field, or gives it an empty value, makes Parse fail with
\* the error of parseControl and return no record.
C12_RequiredFields ==
  pout.op = "Parse" =>
    /\ pout.out.err = "" =>
         /\ pout.out.pkg.Name # <<>>
         /\ pout.out.pkg.Version # <<>>
         /\ pout.out.pkg.Architecture # <<>>
    /\ LacksRequiredField(pout.file) =>
         /\ pout.out.err = "parse control"
         /\ pout.out.cause \in { "missing Package field",
                                 "missing Version field",
                                 "missing Architecture field" }
         /\ "pkg" \notin DOMAIN pout.out

\* A control file with Package and Version and an empty Architecture was
\* refused.
C12_Witness ==
  /\ pout.op = "Parse"
  /\ LacksRequiredField(pout.file)
  /\ GivesValue(ControlOf(pout.file).data, "Package")
  /\ GivesValue(ControlOf(pout.file).data, "Version")
  /\ pout.out.err = "parse control"
  /\ pout.out.cause = "missing Architecture field"

(***************************************************************************)
(* Properties of SortVersions (SpecSort).                                  *)
(***************************************************************************)

\* How often a version occurs in a slice.
Occurrences(versions, v) ==
  Cardinality({ i \in 1..Len(versions) : versions[i] = v })

\* C15: SortVersions leaves a permutation of its argument, no element
\* dropped or duplicated, in which Compare(versions[i], versions[j]) >= 0
\* for all positions i < j.
C15_SortVersionsPermutationDescending ==
  vres.op = "Sort" =>
    /\ Len(vres.out) = Len(vres.in)
    /\ \A v \in SortPool :
         Occurrences(vres.out, v) = Occurrences(vres.in, v)
    /\ \A i, j \in 1..Len(vres.out) :
         i < j => Compare(vres.out[i], vres.out[j]) >= 0

\* The slice of TestSortVersions was sorted to the expected order.
C15_Witness ==
  /\ vres.op = "Sort"
  /\ vres.in = TestSortInput
  /\ vres.out = TestSortExpected

(***************************************************************************)
(* Properties of Prune and of the index build on a pool that holds a file  *)
(* deb.Parse refuses (SpecFault).                                          *)
(***************************************************************************)

\* The .deb files of a pool that fail extraction.
Unparseable(fs) ==
  { p \in DOMAIN fs : HasSuffix(p, DebSuffix) /\ Parse(fs[p]).err # "" }

\* C13: if a .deb file under the pool fails extraction, Prune returns an
\* error that names the path of such a file and deletes no file and no
\* directory, also when DryRun is false.
C13_PruneAbortsBeforeDeleting ==
  (last.op = "Prune" /\ Unparseable(last.pre.files) # {}) =>
    /\ last.err # ""
    /\ last.errPath \in Unparseable(last.pre.files)
    /\ files = last.pre.files
    /\ dirs = last.pre.dirs

\* A Prune that keeps one version and is no dry run met two versions of one
\* package and a file that does not parse after them in the walk.
C13_Witness ==
  /\ last.op = "Prune"
  /\ ~last.opts.DryRun
  /\ last.opts.KeepVersions = 1
  /\ Cardinality({ p \in DOMAIN last.pre.files \ Unparseable(last.pre.files) :
                     /\ RecordAt(last.pre.files, p).Name = <<"a">>
                     /\ RecordAt(last.pre.files, p).Architecture = Amd64 }) = 2
  /\ Unparseable(last.pre.files) =
       { Join(<<PoolDir, <<"z">>, <<"z">>, <<"z", "_", "1">> \o DebSuffix>>) }
  /\ last.err = "parse"

\* C14: if a .deb file under the pool of the component fails extraction,
\* whatever its architecture, the index build fails instead of passing over
\* the file, and the Packages, Packages.gz and Packages.xz files of the
\* distribution are as they were.
C14_IndexBuildAborts ==
  (last.op = "GenerateIndex" /\ Unparseable(files) # {}) =>
    /\ last.err # ""
    /\ dists[last.dist] = last.pre

\* An index build failed on a pool with a file that does not parse, after
\* an earlier build had written the three index files with a stanza.
C14_Witness ==
  /\ last.op = "GenerateIndex"
  /\ Unparseable(files) # {}
  /\ last.err = "scan pool"
  /\ LET packagesPath == Join(<<BinaryDir(MainName, Amd64), PackagesName>>)
     IN  /\ dists[last.dist][packagesPath].body # <<>>
         /\ packagesPath \o GzSuffix \in DOMAIN dists[last.dist]
         /\ packagesPath \o XzSuffix \in DOMAIN dists[last.dist]

(***************************************************************************)
(* Properties of the Packages index (SpecIndex).                           *)
(***************************************************************************)

\* The stanzas of the text of a Packages file: its lines, cut at the empty
\* lines.
RECURSIVE SplitStanzas(_, _, _)
SplitStanzas(lines, current, stanzas) ==
  IF Len(lines) = 0
    THEN IF current = <<>> THEN stanzas ELSE Append(stanzas, current)
  ELSE IF Head(lines) = <<>>
    THEN SplitStanzas(Tail(lines), <<>>,
                      IF current = <<>> THEN stanzas
                      ELSE Append(stanzas, current))
  ELSE SplitStanzas(Tail(lines), Append(current, Head(lines)), stanzas)

Stanzas(body) == SplitStanzas(ScanLines(body), <<>>, <<>>)

\* The value a stanza gives to a field, empty when it has no such line.
FieldIn(stanza, name) ==
  LET at == { i \in 1..Len(stanza) :
                /\ Len(stanza[i]) >= 3
                /\ stanza[i][1] = name
                /\ stanza[i][2] = ":" }
  IN  IF at = {} THEN <<>>
      ELSE SubSeq(stanza[CHOOSE i \in at : \A k \in at : i <= k], 4,
                  Len(stanza[CHOOSE i \in at : \A k \in at : i <= k]))

\* The stanzas of the Packages file of a component and architecture in the
\* distribution of the last index build.
IndexStanzas(comp, arch) ==
  Stanzas(dists[last.dist][Join(<<BinaryDir(comp, arch), PackagesName>>)].body)

\* The .deb files under the pool of a component whose Architecture is arch
\* or "all".
Matching(comp, arch) ==
  { p \in DOMAIN files :
      /\ Below(p, Join(<<PoolName, comp>>))
      /\ HasSuffix(p, DebSuffix)
      /\ RecordAt(files, p).Architecture \in {arch, AllArch} }

ConfigPairs ==
  { <<Config.Components[i], Config.Architectures[j]>> :
      i \in 1..Len(Config.Components), j \in 1..Len(Config.Architectures) }

\* C16: the Packages file written for a distribution, component and
\* architecture holds exactly one stanza for each .deb file under the pool
\* of the component whose Architecture is the architecture or "all" and no
\* stanza for another file; the Filename of the stanza is the path of the
\* file relative to the root of the repository.
C16_OneStanzaPerMatchingFile ==
  (last.op = "GenerateIndex" /\ last.err = "") =>
    \A pair \in ConfigPairs :
      Let(IndexStanzas(pair[1], pair[2]), LAMBDA st :
        /\ Len(st) = Cardinality(Matching(pair[1], pair[2]))
        /\ { FieldIn(st[i], "Filename") : i \in 1..Len(st) }
             = Matching(pair[1], pair[2])
        /\ \A i \in 1..Len(st) :
             Let(RecordAt(files, FieldIn(st[i], "Filename")), LAMBDA r :
               /\ FieldIn(st[i], "Package") = r.Name
               /\ FieldIn(st[i], "Version") = r.Version
               /\ FieldIn(st[i], "Architecture") = r.Architecture))

\* An index was built over a pool that holds packages for amd64, for all
\* and for another architecture.
C16_Witness ==
  /\ last.op = "GenerateIndex"
  /\ last.err = ""
  /\ Cardinality(DOMAIN files) = 4
  /\ Len(IndexStanzas(MainName, Amd64)) = 3
  /\ \E i \in 1..3 :
       FieldIn(IndexStanzas(MainName, Amd64)[i], "Architecture") = AllArch

\* C17: in a Packages file no stanza is followed, at any distance, by a
\* stanza with a smaller name, or by one with the same name and a greater
\* version under Compare.
C17_StanzasOrdered ==
  (last.op = "GenerateIndex" /\ last.err = "") =>
    \A pair \in ConfigPairs :
      Let(IndexStanzas(pair[1], pair[2]), LAMBDA st :
        \A i, j \in 1..Len(st) :
          i < j =>
            /\ ~StrLess(FieldIn(st[j], "Package"), FieldIn(st[i], "Package"))
            /\ FieldIn(st[i], "Package") = FieldIn(st[j], "Package") =>
                 Compare(FieldIn(st[i], "Version"),
                         FieldIn(st[j], "Version")) >= 0)

\* The index lists version 2 of package a before version 1 and package
\* liba after both.
C17_Witness ==
  /\ last.op = "GenerateIndex"
  /\ last.err = ""
  /\ Let(IndexStanzas(MainName, Amd64), LAMBDA st :
       /\ Len(st) = 3
       /\ FieldIn(st[1], "Package") = <<"a">>
       /\ FieldIn(st[1], "Version") = <<"2">>
       /\ FieldIn(st[2], "Package") = <<"a">>
       /\ FieldIn(st[2], "Version") = <<"1">>
       /\ FieldIn(st[3], "Package") = <<"l", "i", "b", "a">>)

\* C20: when the xz command fails, GeneratePackagesIndex still returns
\* success, with Packages and Packages.gz written as a build with xz at
\* work writes them.
C20_XzFailureTolerated ==
  (last.op = "GenerateIndex" /\ ~last.xzOk) =>
    /\ last.err = ""
    /\ \A pair \in ConfigPairs :
         Let2(Join(<<BinaryDir(pair[1], pair[2]), PackagesName>>),
              GeneratePackagesIndex(last.pre, files, TRUE).tree,
              LAMBDA packagesPath, withXz :
           /\ packagesPath \in DOMAIN dists[last.dist]
           /\ packagesPath \o GzSuffix \in DOMAIN dists[last.dist]
           /\ dists[last.dist][packagesPath] = withXz[packagesPath]
           /\ dists[last.dist][packagesPath \o GzSuffix]
                = withXz[packagesPath \o GzSuffix]
           /\ dists[last.dist][packagesPath].body
                = dists[last.dist][packagesPath \o GzSuffix].body)

\* A build without xz over a pool with a package succeeded and left no
\* Packages.xz.
C20_Witness ==
  /\ last.op = "GenerateIndex"
  /\ ~last.xzOk
  /\ last.err = ""
  /\ Let(Join(<<BinaryDir(MainName, Amd64), PackagesName>>),
         LAMBDA packagesPath :
       /\ dists[last.dist][packagesPath].body # <<>>
       /\ dists[last.dist][packagesPath \o GzSuffix].kind = "gzip"
       /\ packagesPath \o XzSuffix \notin DOMAIN dists[last.dist])

(***************************************************************************)
(* Properties of Repository.Init (SpecInit).                               *)
(***************************************************************************)

\* C18: after Init every distribution, component and architecture of the
\* configuration has its index directory with a Packages file, and every
\* file that was there before Init, the Packages files of an index build
\* included, has the content it had.
C18_InitCreatesAndKeeps ==
  last.op = "Init" =>
    /\ \A d \in Range(Config.Distributions), pair \in ConfigPairs :
         Join(<<BinaryDir(pair[1], pair[2]), PackagesName>>) \in DOMAIN dists[d]
    /\ \A d \in DOMAIN last.pre :
         \A p \in DOMAIN last.pre[d] : dists[d][p] = last.pre[d][p]

\* Init ran after an index build of stable over a pool with a package and
\* before any build of testing.
C18_Witness ==
  /\ last.op = "Init"
  /\ Let(Join(<<BinaryDir(MainName, Amd64), PackagesName>>),
         LAMBDA packagesPath :
       /\ packagesPath \in DOMAIN last.pre["stable"]
       /\ last.pre["stable"][packagesPath].body # <<>>
       /\ packagesPath \notin DOMAIN last.pre["testing"]
       /\ dists["testing"][packagesPath] = TextFile(<<>>))

(***************************************************************************)
(* Properties of GenerateRelease (SpecRelease).                            *)
(***************************************************************************)

\* The files below dists/<dist> whose name starts with Packages.
PackagesFiles(tree) == { p \in DOMAIN tree : HasPrefix(Base(p), PackagesName) }

\* The paths of a block of a Release.
BlockPaths(block) == [i \in 1..Len(block) |-> block[i][3]]

\* C19: the Release GenerateRelease writes lists exactly the files below
\* dists/<dist> whose name starts with Packages, each once in each of the
\* blocks MD5Sum, SHA1 and SHA256 and in the same order, with the size and
\* the digests of the content of the file; it lists no other file.
C19_ReleaseListsPackagesOnly ==
  (last.op = "GenerateIndex" /\ last.err = "") =>
    Let2(dists[last.dist], dists[last.dist][ReleaseName], LAMBDA tree, rel :
      /\ Range(BlockPaths(rel.MD5Sum)) = PackagesFiles(tree)
      /\ Len(rel.MD5Sum) = Cardinality(PackagesFiles(tree))
      /\ BlockPaths(rel.SHA1) = BlockPaths(rel.MD5Sum)
      /\ BlockPaths(rel.SHA256) = BlockPaths(rel.MD5Sum)
      /\ \A i \in 1..Len(rel.MD5Sum) :
           Let(rel.MD5Sum[i][3], LAMBDA p :
             /\ p \in DOMAIN tree
             /\ rel.MD5Sum[i] = <<<<"md5", tree[p]>>, Len(tree[p].body), p>>
             /\ rel.SHA1[i] = <<<<"sha1", tree[p]>>, Len(tree[p].body), p>>
             /\ rel.SHA256[i]
                  = <<<<"sha256", tree[p]>>, Len(tree[p].body), p>>))

(***************************************************************************)
(* Properties of the directories Prune leaves (SpecClean).                 *)
(***************************************************************************)

\* The directories below the pool root that have no entry.
EmptyDirs(fs, ds) ==
  { d \in ds : /\ Below(d, PoolDir)
               /\ ~\E q \in (DOMAIN fs) \cup ds : q # d /\ Dir(q) = d }

\* C21: after a Prune that is no dry run has returned without error, no
\* directory below the pool root is empty, a directory whose only entries
\* were empty directories included, and the pool root exists.
C21_NoEmptyDirectoryLeft ==
  (last.op = "Prune" /\ last.err = "" /\ ~last.opts.DryRun) =>
    /\ PoolDir \in dirs
    /\ EmptyDirs(files, dirs) = {}

\* The files Prune put into the group of a key.
GroupFiles(group) == Range(group.Kept) \cup Range(group.Deleted)

\* C22: Prune puts two .deb files into the same group if and only if they
\* have the same name and the same architecture, also when a name or an
\* architecture holds the character '_'.
C22_GroupsAreNameArchitecturePairs ==
  (last.op = "Prune" /\ last.err = "") =>
    \A p, q \in { f \in DOMAIN last.pre.files : HasSuffix(f, DebSuffix) } :
      (\E key \in DOMAIN last.groups :
         p \in GroupFiles(last.groups[key]) /\ q \in GroupFiles(last.groups[key]))
      <=> /\ RecordAt(last.pre.files, p).Name = RecordAt(last.pre.files, q).Name
          /\ RecordAt(last.pre.files, p).Architecture
               = RecordAt(last.pre.files, q).Architecture

(***************************************************************************)
(* Properties of parseControl on continuation lines (SpecControl).         *)
(***************************************************************************)

\* A line that begins with a space or a tab.
IsContinuation(line) == Len(line) > 0 /\ line[1] \in {" ", "\t"}

\* A line `Field: value`: no continuation line, with a colon that is not
\* its first character.
IsFieldLine(line) == ~IsContinuation(line) /\ IndexOf(line, ":") > 1

\* The name a field line declares and the value on the line itself.
DeclaredName(line) == SubSeq(line, 1, IndexOf(line, ":") - 1)
DeclaredValue(line) == TrimSpace(SubSeq(line, IndexOf(line, ":") + 1, Len(line)))

\* The continuation lines from line j on, each preceded by a newline, up to
\* the next field line; a line that is neither is passed over when skip is
\* TRUE and ends the run when skip is FALSE.
RECURSIVE Continuations(_, _, _)
Continuations(lines, j, skip) ==
  IF j > Len(lines) \/ IsFieldLine(lines[j]) THEN <<>>
  ELSE IF IsContinuation(lines[j])
    THEN <<"\n">> \o lines[j] \o Continuations(lines, j + 1, skip)
  ELSE IF skip THEN Continuations(lines, j + 1, skip)
  ELSE <<>>

\* The last line of a control file that declares a field, 0 when none does.
LastDeclaration(lines, name) ==
  LET at == { i \in 1..Len(lines) :
                IsFieldLine(lines[i]) /\ DeclaredName(lines[i]) = name }
  IN  IF at = {} THEN 0 ELSE CHOOSE i \in at : \A k \in at : k <= i

\* The value of a field: that of its last declaration with the
\* continuation lines after it, trimmed at its two ends.
ValueOf(lines, name, skip) ==
  Let(LastDeclaration(lines, name), LAMBDA i :
    IF i = 0 THEN <<>>
    ELSE TrimSpace(DeclaredValue(lines[i])
                     \o Continuations(lines, i + 1, skip)))

\* C23: parseControl appends every line that begins with a space or a tab,
\* preceded by a newline, to the value of the field declared by the nearest
\* preceding field line; the accumulated value is trimmed at its two ends
\* only, so the inner lines keep their leading whitespace; the value is
\* stored when the next field starts or the input ends.
C23_ContinuationLinesAccumulate ==
  (pout.op = "parseControl" /\ pout.out.err = "") =>
    \A name \in DOMAIN FieldOf :
      pout.out.pkg[FieldOf[name]]
        = ValueOf(ScanLines(pout.data), name, TRUE)

\* A Description with two continuation lines, the first starting with a
\* space and the second with a tab, was stored with both inner lines as
\* they are and without the trailing blank of the last.
C23_Witness ==
  /\ pout.op = "parseControl"
  /\ pout.out.err = ""
  /\ pout.out.pkg.Description = <<"d", "\n", " ", "x", "\n", "\t", "y">>

\* C30: a line that is neither a continuation line nor a field line (an
\* empty line, a line without a colon, a line that starts with a colon)
\* ends the active field: continuation lines after it are not appended to
\* the value of the earlier field.
C30_OtherLineEndsField ==
  (pout.op = "parseControl" /\ pout.out.err = "") =>
    \A name \in DOMAIN FieldOf :
      pout.out.pkg[FieldOf[name]]
        = ValueOf(ScanLines(pout.data), name, FALSE)

(***************************************************************************)
(* Properties of Compare on revisions and on long digit runs               *)
(* (SpecCompare).                                                          *)
(***************************************************************************)

\* A string that is a version without a revision: not empty, no hyphen.
NoRevision(v) == v # <<>> /\ "-" \notin Range(v)

\* C24 as stated: an empty revision is distinct from the revision "0": for
\* every upstream U, Compare(U, U-0) is not 0.
C24_EmptyRevisionDistinctFromZero ==
  (vres.op = "Suffix" /\ NoRevision(va)) => vres.dashzero # 0

\* C24 as amended: an empty revision compares equal to the revision "0":
\* for every upstream U, Compare(U, U-0) is 0.
C24_EmptyRevisionEqualsZero ==
  (vres.op = "Suffix" /\ NoRevision(va)) => vres.dashzero = 0

\* Compare("1.0", "1.0-0") was evaluated.
C24_Witness ==
  /\ vres.op = "Suffix"
  /\ va = <<"1", ".", "0">>
  /\ vres.dashzero = 0

\* A non-empty string of digits.
DigitRun(s) == s # <<>> /\ \A i \in 1..Len(s) : IsDigit(s[i])

\* The number a digit run denotes, as its digits without leading zeros.
NumberOf(s) ==
  LET t == TrimLeftZeros(s) IN IF t = <<>> THEN <<"0">> ELSE t

\* C25: digit runs and epochs compare as unsigned integers of any length:
\* two versions that are digit runs denoting different numbers, or
\* well-formed versions whose epochs denote different numbers, never compare
\* equal, also beyond the range of a signed 64-bit integer.
C25_DifferentNumbersNeverEqual ==
  vres.op = "Compare" =>
    /\ (DigitRun(va) /\ DigitRun(vb) /\ NumberOf(va) # NumberOf(vb))
         => vres.m[1][2] # 0
    /\ (/\ WellFormedVersion(va) /\ WellFormedVersion(vb)
        /\ GrammarEpoch(va) # GrammarEpoch(vb))
         => vres.m[1][2] # 0

(***************************************************************************)
(* The compressed variants of an index (SpecIndex).                        *)
(***************************************************************************)

\* The content a compressed file decompresses to.
Decompressed(file) == file.body

\* C29: after a successful index build, Packages.gz and, when it exists,
\* Packages.xz decompress to the bytes of the Packages file next to them,
\* also when the xz step failed in the latest build.
C29_CompressedVariantsMatch ==
  (last.op = "GenerateIndex" /\ last.err = "") =>
    \A pair \in ConfigPairs :
      Let(Join(<<BinaryDir(pair[1], pair[2]), PackagesName>>),
          LAMBDA packagesPath :
        \A suffix \in {GzSuffix, XzSuffix} :
          packagesPath \o suffix \in DOMAIN dists[last.dist] =>
            /\ packagesPath \in DOMAIN dists[last.dist]
            /\ Decompressed(dists[last.dist][packagesPath \o suffix])
                 = dists[last.dist][packagesPath].body)

(***************************************************************************)
(* One pool for all distributions (SpecShared): every archive is added     *)
(* for one distribution only, and the index of each distribution is built. *)
(***************************************************************************)

\* The archives and the distribution each is added for: one of a configured
\* architecture and one of an architecture no index is built for.
SharedInputs ==
  { [src |-> Named(<<"a">>, <<"1">>, Amd64), dist |-> "stable"],
    [src |-> Named(<<"a", "_", "b">>, <<"1">>, <<"c">>), dist |-> "testing"] }

NextShared ==
  \/ \E in \in SharedInputs : DoAddPackageTo(in.src, in.dist)
  \/ \E dist \in Range(Config.Distributions) : DoGenerateIndex(dist)

SpecShared == InitRepository /\ [][NextShared]_vars

\* The pool paths of the archives added for a distribution other than dist.
AddedForAnother(dist) ==
  { PoolPath(ParseFile(in.src.file).pkg, Base(in.src.path)) :
      in \in { i \in SharedInputs : i.dist # dist } }

addCmd_IndexBeforePrune(fs, ds, tree, src, dist, keepVersions, xzOk, now) ==
  Let(AddPackage(fs, ds, src.path, src.file, dist), LAMBDA a :
    IF a.err # ""
      THEN [err |-> "add package", files |-> fs, dirs |-> ds, tree |-> tree]
    ELSE Let(GeneratePackagesIndex(tree, a.files, xzOk), LAMBDA g :
      Let(IF keepVersions > 0
            THEN Prune(a.files, a.dirs,
                       [KeepVersions |-> keepVersions, DryRun |-> FALSE],
                       PoolWalk(a.files))
          ELSE [err |-> "", files |-> a.files, dirs |-> a.dirs],
          LAMBDA p :
        IF p.err # ""
          THEN [err |-> "prune", files |-> p.files, dirs |-> p.dirs,
                tree |-> tree]
        ELSE IF g.err # ""
          THEN [err |-> "generate packages index", files |-> p.files,
                dirs |-> p.dirs, tree |-> g.tree]
        ELSE [err |-> "", files |-> p.files, dirs |-> p.dirs,
              tree |-> GenerateRelease(g.tree, dist, now)])))

\* addCmd.RunE: AddPackage, Prune when keepVersions > 0,
\* GeneratePackagesIndex, GenerateRelease; the first error ends the command.
addCmd(fs, ds, tree, src, dist, keepVersions, xzOk, now) ==
  Let(AddPackage(fs, ds, src.path, src.file, dist), LAMBDA a :
    IF a.err # ""
      THEN [err |-> "add package", files |-> fs, dirs |-> ds, tree |-> tree]
    ELSE Let(IF keepVersions > 0
               THEN Prune(a.files, a.dirs,
                          [KeepVersions |-> keepVersions, DryRun |-> FALSE],
                          PoolWalk(a.files))
             ELSE [err |-> "", files |-> a.files, dirs |-> a.dirs],
             LAMBDA p :
      IF p.err # ""
        THEN [err |-> "prune", files |-> p.files, dirs |-> p.dirs,
              tree |-> tree]
      ELSE Let(GeneratePackagesIndex(tree, p.files, xzOk), LAMBDA g :
        IF g.err # ""
          THEN [err |-> "generate packages index", files |-> p.files,
                dirs |-> p.dirs, tree |-> g.tree]
        ELSE [err |-> "", files |-> p.files, dirs |-> p.dirs,
              tree |-> GenerateRelease(g.tree, dist, now)])))

\* plow add --dist dist --keep-versions keepVersions src.path
DoAddCommand(src, dist) ==
  \E keepVersions \in 0..MaxKeep, xzOk \in BOOLEAN, now \in 1..MaxDate :
    \E r \in {addCmd(files, dirs, dists[dist], src, dist, keepVersions,
                     xzOk, now)} :
      /\ files' = r.files
      /\ dirs' = r.dirs
      /\ dists' = [dists EXCEPT ![dist] = r.tree]
      /\ last' = [op |-> "add", dist |-> dist, debPath |-> src.path,
                  keepVersions |-> keepVersions, err |-> r.err,
                  pruned |-> DOMAIN files \ DOMAIN r.files]
      /\ UNCHANGED <<versionVars, packageVars>>

\* The distribution the add command takes when --dist is not given.
AddDists == {"stable"}

NextAdd ==
  \/ \E src \in FaultSources, dist \in AddDists : DoAddCommand(src, dist)
  \/ DoPlaceFile

SpecAdd == InitRepository /\ [][NextAdd]_vars

\* C27: after a successful add for a distribution, every Filename of that
\* distribution's Packages index names a file of the pool, and every entry
\* of its Release gives the size and the digests of the current content of
\* the file it lists.
C27_AddLeavesIndexAndReleaseCurrent ==
  (last.op = "add" /\ last.err = "") =>
    /\ \A pair \in ConfigPairs :
         Let(IndexStanzas(pair[1], pair[2]), LAMBDA st :
           \A i \in 1..Len(st) : FieldIn(st[i], "Filename") \in DOMAIN files)
    /\ Let2(dists[last.dist], dists[last.dist][ReleaseName], LAMBDA tree, rel :
         /\ Len(rel.MD5Sum) > 0
         /\ Len(rel.SHA1) = Len(rel.MD5Sum)
         /\ Len(rel.SHA256) = Len(rel.MD5Sum)
         /\ \A i \in 1..Len(rel.MD5Sum) :
              /\ rel.MD5Sum[i][3] \in DOMAIN tree
              /\ rel.SHA1[i][3] \in DOMAIN tree
              /\ rel.SHA256[i][3] \in DOMAIN tree
              /\ rel.MD5Sum[i] = Let(rel.MD5Sum[i][3], LAMBDA p :
                   <<<<"md5", tree[p]>>, Len(tree[p].body), p>>)
              /\ rel.SHA1[i] = Let(rel.SHA1[i][3], LAMBDA p :
                   <<<<"sha1", tree[p]>>, Len(tree[p].body), p>>)
              /\ rel.SHA256[i] = Let(rel.SHA256[i][3], LAMBDA p :
                   <<<<"sha256", tree[p]>>, Len(tree[p].body), p>>))

\* A successful add whose prune step removed an archive that the index of
\* the distribution listed before the command.
C27_Witness ==
  /\ last.op = "add" /\ last.err = "" /\ last.keepVersions = 1
  /\ last.pruned # {}
  /\ \E pair \in ConfigPairs : Len(IndexStanzas(pair[1], pair[2])) = 1

(***************************************************************************)
(* An index build that is interrupted and run again (SpecRecover).         *)
(***************************************************************************)

\* The write steps of generatePackagesForArch, in the order it takes them.
WriteSteps == <<"Packages", "Packages.gz", "Packages.xz">>

\* generatePackagesForArch stopped after `steps` of its write steps.
generatePackagesSteps(tree, fs, comp, arch, xzOk, steps) ==
  Let2(scanPool(fs, Join(<<PoolName, comp>>), arch),
       Join(<<BinaryDir(comp, arch), PackagesName>>),
       LAMBDA scan, packagesPath :
    IF scan.err # "" THEN [err |-> "scan pool", tree |-> tree]
    ELSE Let(packagesContent(scan.packages), LAMBDA content :
           [err |-> "",
            tree |-> (IF steps >= 3 /\ xzOk
                        THEN (packagesPath \o XzSuffix :> XzFile(content))
                      ELSE EmptyMap)
                     @@ (packagesPath :> TextFile(content))
                     @@ (IF steps >= 2
                           THEN (packagesPath \o GzSuffix :> GzipFile(content))
                         ELSE EmptyMap)
                     @@ tree]))

\* GeneratePackagesIndex stopped in its pair number `at` after `steps` write
\* steps: the pairs before it are complete, the pairs after it untouched.
RECURSIVE interruptedEach(_, _, _, _, _, _)
interruptedEach(pairs, tree, fs, xzOk, at, steps) ==
  IF at = 1
    THEN generatePackagesSteps(tree, fs, Head(pairs)[1], Head(pairs)[2],
                               xzOk, steps)
  ELSE Let(generatePackagesForArch(tree, fs, Head(pairs)[1],
                                   Head(pairs)[2], xzOk), LAMBDA g :
         IF g.err # "" THEN g
         ELSE interruptedEach(Tail(pairs), g.tree, fs, xzOk, at - 1, steps))

\* A build of dist's index that is interrupted after one of its write
\* steps, before GenerateRelease.
DoInterruptedBuild(dist) ==
  \E xzOk \in BOOLEAN, at \in 1..Cardinality(ConfigPairs),
     steps \in 1..Len(WriteSteps) :
    \E g \in {interruptedEach(
                loopPairs(Config.Components, Config.Architectures),
                dists[dist], files, xzOk, at, steps)} :
      /\ g.err = ""
      /\ dists' = [dists EXCEPT ![dist] = g.tree]
      /\ last' = [op |-> "Interrupted", dist |-> dist, xzOk |-> xzOk,
                  at |-> at, steps |-> steps, start |-> dists[dist]]
      /\ UNCHANGED <<versionVars, packageVars, files, dirs>>

\* The build of dist's index run again right after its interruption.
DoBuildAgain(dist) ==
  /\ last.op = "Interrupted"
  /\ last.dist = dist
  /\ \E xzOk \in BOOLEAN, now \in 1..MaxDate :
       \E g \in {GeneratePackagesIndex(dists[dist], files, xzOk)} :
         /\ dists' = [dists EXCEPT ![dist] =
                        IF g.err # "" THEN g.tree
                        ELSE GenerateRelease(g.tree, dist, now)]
         /\ last' = [op |-> "BuildAgain", dist |-> dist, xzOk |-> xzOk,
                     err |-> g.err, start |-> last.start,
                     interrupted |-> [xzOk |-> last.xzOk, at |-> last.at,
                                      steps |-> last.steps,
                                      tree |-> dists[dist]]]
         /\ UNCHANGED <<versionVars, packageVars, files, dirs>>

NextRecover ==
  \/ \E src \in FaultSources : DoAddPackage(src)
  \/ \E dist \in AddDists : DoGenerateIndex(dist)
  \/ \E dist \in AddDists : DoInterruptedBuild(dist)
  \/ \E dist \in AddDists : DoBuildAgain(dist)

SpecRecover == InitRepository /\ [][NextRecover]_vars

\* The index files of a tree with their content.
IndexFiles(tree) == [p \in PackagesFiles(tree) |-> tree[p]]

\* C26: when a build of a distribution's index is interrupted after one of
\* its write steps and run again to completion on the unchanged pool, the
\* index files are those an uninterrupted build from the same start would
\* have left, the xz command behaving in it as in the interrupted run or as
\* in the second run.
C26_RerunRecoversIndex ==
  last.op = "BuildAgain" =>
    /\ last.err = ""
    /\ \E xzOk \in {last.interrupted.xzOk, last.xzOk} :
         IndexFiles(dists[last.dist])
           = IndexFiles(GeneratePackagesIndex(last.start, files, xzOk).tree)

\* A build was interrupted after it wrote Packages only, leaving a
\* Packages.gz of other content, and was run again.
C26_Witness ==
  /\ last.op = "BuildAgain" /\ last.err = ""
  /\ last.xzOk = last.interrupted.xzOk
  /\ last.interrupted.steps = 1
  /\ \E pair \in ConfigPairs :
       Let(Join(<<BinaryDir(pair[1], pair[2]), PackagesName>>),
           LAMBDA packagesPath :
         /\ packagesPath \o GzSuffix \in DOMAIN last.interrupted.tree
         /\ last.interrupted.tree[packagesPath \o GzSuffix].body
              # last.interrupted.tree[packagesPath].body
         /\ dists[last.dist][packagesPath \o GzSuffix].body
              = dists[last.dist][packagesPath].body)

Init == InitVersion
Next == NextCompare
Spec == Init /\ [][Next]_vars
=============================================================================
